---- MODULE Spec2Model ----
(***************************************************************************)
(* Proactive survey agent: the decision engine (cooldown gate, sentiment   *)
(* classification with keyword fallback, rule table, question generation), *)
(* the file-backed long-term memory it writes to and the outbound message  *)
(* queue.  Python values are modelled as follows: a str that the code      *)
(* inspects character by character is a sequence of one-character strings; *)
(* an optional str is None (the empty tuple) or <<s>>; an exception is a   *)
(* record whose exc field names it.                                        *)
(***************************************************************************)
EXTENDS Integers, Sequences, FiniteSets, TLC

VARIABLES ai_enabled, ltm, files, message_queue, now, hashseed, ret, threads

vars == <<ai_enabled, ltm, files, message_queue, now, hashseed, ret, threads>>

(* ---------------------------------------------------------------------- *)
(* Bounds of the model                                                     *)
(* ---------------------------------------------------------------------- *)

\* clock ticks in one day: the clock is finer than the whole days the gate counts
TicksPerDay == 2

(* ---------------------------------------------------------------------- *)
(* Python values                                                           *)
(* ---------------------------------------------------------------------- *)

None == <<>>

Some(v) == <<v>>

\* bool(x) of an optional str: None and "" are falsy
Truthy(v) == v # None /\ v # Some("")

\* str(x) inside an f-string
Format(v) == IF v = None THEN "None" ELSE v[1]

Ok(v) == [exc |-> "", val |-> v]

Raise(e) == [exc |-> e]

Min(a, b) == IF a < b THEN a ELSE b

\* str.lower() on ASCII text
LowerChar(c) ==
    CASE c = "A" -> "a" [] c = "B" -> "b" [] c = "C" -> "c" [] c = "D" -> "d"
      [] c = "E" -> "e" [] c = "F" -> "f" [] c = "G" -> "g" [] c = "H" -> "h"
      [] c = "I" -> "i" [] c = "J" -> "j" [] c = "K" -> "k" [] c = "L" -> "l"
      [] c = "M" -> "m" [] c = "N" -> "n" [] c = "O" -> "o" [] c = "P" -> "p"
      [] c = "Q" -> "q" [] c = "R" -> "r" [] c = "S" -> "s" [] c = "T" -> "t"
      [] c = "U" -> "u" [] c = "V" -> "v" [] c = "W" -> "w" [] c = "X" -> "x"
      [] c = "Y" -> "y" [] c = "Z" -> "z"
      [] OTHER -> c

Lower(text) == [i \in 1..Len(text) |-> LowerChar(text[i])]

\* `kw in text` on str
IsSubstring(kw, text) ==
    \E i \in 0..(Len(text) - Len(kw)) : \A j \in 1..Len(kw) : text[i + j] = kw[j]

(* ---------------------------------------------------------------------- *)
(* Requests                                                                *)
(* ---------------------------------------------------------------------- *)

TxtSupportNegative ==
    <<"S", "u", "p", "p", "o", "r", "t", " ", "c", "h", "a", "t", " ", "w", "i", "t", "h", " ", "n", "e", "g", "a", "t", "i", "v", "e", " ", "s", "e", "n", "t", "i", "m", "e", "n", "t">>

TxtHappyOrder ==
    <<"H", "a", "p", "p", "y", " ", "w", "i", "t", "h", " ", "r", "e", "c", "e", "n", "t", " ", "o", "r", "d", "e", "r">>

TxtDashboard ==
    <<"L", "o", "g", "g", "e", "d", " ", "i", "n", " ", "a", "n", "d", " ", "v", "i", "e", "w", "e", "d", " ", "d", "a", "s", "h", "b", "o", "a", "r", "d">>

TxtUpperSupport ==
    <<"S", "U", "P", "P", "O", "R", "T", " ", "w", "a", "s", " ", "b", "a", "d">>

TxtBroken ==
    <<"P", "r", "o", "d", "u", "c", "t", " ", "i", "s", " ", "b", "r", "o", "k", "e", "n">>

TxtUnhappy ==
    <<"u", "n", "h", "a", "p", "p", "y">>

ActivityTexts ==
    << TxtSupportNegative, TxtHappyOrder, TxtDashboard, TxtUpperSupport, TxtBroken, TxtUnhappy >>

SupportWord ==
    <<"s", "u", "p", "p", "o", "r", "t">>

negative_keywords ==
    << <<"n", "e", "g", "a", "t", "i", "v", "e">>,
       <<"c", "o", "m", "p", "l", "a", "i", "n", "t">>,
       <<"i", "s", "s", "u", "e">>,
       <<"p", "r", "o", "b", "l", "e", "m">>,
       <<"d", "i", "s", "s", "a", "t", "i", "s", "f", "i", "e", "d">>,
       <<"u", "n", "h", "a", "p", "p", "y">>,
       <<"d", "i", "s", "a", "p", "p", "o", "i", "n", "t", "e", "d">>,
       <<"f", "r", "u", "s", "t", "r", "a", "t", "e", "d">>,
       <<"b", "r", "o", "k", "e", "n">>,
       <<"d", "e", "f", "e", "c", "t">>,
       <<"u", "n", "w", "e", "l", "l">>,
       <<"s", "i", "c", "k">>,
       <<"i", "l", "l">>,
       <<"b", "a", "d">>,
       <<"t", "e", "r", "r", "i", "b", "l", "e">>,
       <<"a", "w", "f", "u", "l">>,
       <<"s", "a", "d">> >>

positive_keywords ==
    << <<"p", "o", "s", "i", "t", "i", "v", "e">>,
       <<"h", "a", "p", "p", "y">>,
       <<"s", "a", "t", "i", "s", "f", "i", "e", "d">>,
       <<"g", "r", "e", "a", "t">>,
       <<"e", "x", "c", "e", "l", "l", "e", "n", "t">>,
       <<"f", "a", "n", "t", "a", "s", "t", "i", "c">>,
       <<"a", "m", "a", "z", "i", "n", "g">>,
       <<"l", "o", "v", "e">>,
       <<"a", "w", "e", "s", "o", "m", "e">>,
       <<"d", "e", "l", "i", "g", "h", "t", "e", "d">> >>

\* recent_activity values: str, and values of other types a caller may pass
StrActivity(text) == [type |-> "str", val |-> text]

IntActivity == [type |-> "int", val |-> <<>>]

NoneActivity == [type |-> "NoneType", val |-> <<>>]

TupleActivity == [type |-> "tuple", val |-> <<"b", "a", "d">>]

Activities ==
    {StrActivity(ActivityTexts[i]) : i \in DOMAIN ActivityTexts}
        \cup {IntActivity, NoneActivity, TupleActivity}

\* last_survey_date values: None, or a str in one of these forms
NoDate == [form |-> "none", day |-> 0, tick |-> 0]

EmptyDate == [form |-> "empty", day |-> 0, tick |-> 0]

GarbageDate == [form |-> "garbage", day |-> 0, tick |-> 0]

\* "YYYY-MM-DD"
DateOnly(d) == [form |-> "date", day |-> d, tick |-> 0]

\* "YYYY-MM-DDTHH:MM:SS"
DateTime(d, t) == [form |-> "datetime", day |-> d, tick |-> t]

\* "YYYY-MM-DDTHH:MM:SSZ", "...+00:00"
DateTimeOffset(d, t) == [form |-> "offset", day |-> d, tick |-> t]

UserIds == {"", "u1"}

Purchases == {None, Some(""), Some("Laptop")}

Request(u, a, p, d) ==
    [user_id |-> u, recent_activity |-> a, last_purchase |-> p, last_survey_date |-> d]

(* ---------------------------------------------------------------------- *)
(* Clock                                                                   *)
(* ---------------------------------------------------------------------- *)

MIN_DAYS_BETWEEN_SURVEYS == 30

\* datetime.now().isoformat()
get_timestamp(clock) == [iso |-> clock]

\* dateutil's parser.parse: a datetime, naive unless the text carries an offset
parser_parse(s) ==
    CASE s.form = "date" -> Ok([t |-> s.day * TicksPerDay, aware |-> FALSE])
      [] s.form = "datetime" -> Ok([t |-> s.day * TicksPerDay + s.tick, aware |-> FALSE])
      [] s.form = "offset" -> Ok([t |-> s.day * TicksPerDay + s.tick, aware |-> TRUE])
      [] OTHER -> Raise("ParserError")

\* datetime.now() - last_date: naive minus aware raises TypeError
datetime_sub(clock, dt) ==
    IF dt.aware THEN Raise("TypeError") ELSE Ok(clock - dt.t)

\* timedelta.days: whole days, rounded towards minus infinity
timedelta_days(delta) == delta \div TicksPerDay

\* _should_send_survey with an except branch that blocks instead of passing
_should_send_survey_fail_closed(last_survey_date, clock) ==
    IF last_survey_date.form \in {"none", "empty"}
    THEN TRUE
    ELSE IF parser_parse(last_survey_date).exc # ""
    THEN FALSE
    ELSE IF datetime_sub(clock, parser_parse(last_survey_date).val).exc # ""
    THEN FALSE
    ELSE timedelta_days(datetime_sub(clock, parser_parse(last_survey_date).val).val)
             >= MIN_DAYS_BETWEEN_SURVEYS

_should_send_survey(last_survey_date, clock) ==
    IF last_survey_date.form \in {"none", "empty"}
    THEN TRUE
    ELSE LET last_date == parser_parse(last_survey_date)
         IN IF last_date.exc # ""
            THEN TRUE
            ELSE LET diff == datetime_sub(clock, last_date.val)
                 IN IF diff.exc # ""
                    THEN TRUE
                    ELSE timedelta_days(diff.val) >= MIN_DAYS_BETWEEN_SURVEYS

(* ---------------------------------------------------------------------- *)
(* AI service                                                              *)
(* ---------------------------------------------------------------------- *)

\* sum(1 for kw in keywords if kw in text_lower)
keyword_count(keywords, text_lower) ==
    Cardinality({i \in DOMAIN keywords : IsSubstring(keywords[i], text_lower)})

\* _fallback_sentiment without the cap of 95
_fallback_sentiment_uncapped(text) ==
    IF text.type # "str"
    THEN Raise("AttributeError")
    ELSE IF keyword_count(negative_keywords, Lower(text.val))
                > keyword_count(positive_keywords, Lower(text.val))
    THEN Ok([sentiment |-> "negative",
             confidence |-> 60 + (keyword_count(negative_keywords, Lower(text.val)) * 10),
             reason |-> "Keyword-based analysis (fallback mode)"])
    ELSE IF keyword_count(positive_keywords, Lower(text.val))
                > keyword_count(negative_keywords, Lower(text.val))
    THEN Ok([sentiment |-> "positive",
             confidence |-> 60 + (keyword_count(positive_keywords, Lower(text.val)) * 10),
             reason |-> "Keyword-based analysis (fallback mode)"])
    ELSE Ok([sentiment |-> "neutral", confidence |-> 50,
             reason |-> "Keyword-based analysis (fallback mode)"])

\* text is a recent_activity value; only str has lower()
_fallback_sentiment(text) ==
    IF text.type # "str"
    THEN Raise("AttributeError")
    ELSE LET text_lower == Lower(text.val)
             negative_count == keyword_count(negative_keywords, text_lower)
             positive_count == keyword_count(positive_keywords, text_lower)
             reason == "Keyword-based analysis (fallback mode)"
         IN IF negative_count > positive_count
            THEN Ok([sentiment |-> "negative",
                     confidence |-> Min(60 + (negative_count * 10), 95),
                     reason |-> reason])
            ELSE IF positive_count > negative_count
            THEN Ok([sentiment |-> "positive",
                     confidence |-> Min(60 + (positive_count * 10), 95),
                     reason |-> reason])
            ELSE Ok([sentiment |-> "neutral", confidence |-> 50, reason |-> reason])

\* _fallback_sentiment over the activities of the model, computed once
fallback_sentiment_memo == [a \in Activities |-> _fallback_sentiment(a)]

\* What model.generate_content does: raise, or return text.  The text is
\* described by its layout (a ```json fence, a bare ``` fence or none; prose
\* around the payload or not) and by the JSON value of its payload.
AiRaises == [kind |-> "raise"]

AiText(fence, prose, json) == [kind |-> "text", fence |-> fence, prose |-> prose, json |-> json]

JsonInvalid == [j |-> "invalid"]

JsonNumber == [j |-> "number"]

JsonObject(fields) == [j |-> "object", fields |-> fields]

JsonArray(items) == [j |-> "array", items |-> items]

JsonString(s) == [j |-> "string", s |-> s]

JsonNull == [j |-> "null"]

\* `not v` for a value as json.loads gives it: None, or an empty list, dict or str
JsonFalsy(v) ==
    \/ v.j = "null"
    \/ v.j = "array" /\ Len(v.items) = 0
    \/ v.j = "object" /\ DOMAIN v.fields = {}
    \/ v.j = "string" /\ Len(v.s) = 0

\* the fence stripping of both parsers, and the "[" ... "]" slice of the
\* question parser; the result is what json.loads is given
extract_payload(response, bracket_slice) ==
    IF response.fence # "none"
    THEN response.json
    ELSE IF bracket_slice /\ response.json.j = "array"
    THEN response.json
    ELSE IF response.prose
    THEN JsonInvalid
    ELSE response.json

\* whether the AI path yields its result: the model answered, json.loads
\* accepted the payload, and result['sentiment'] and result['confidence'] exist
sentiment_parsed(response) ==
    /\ response.kind = "text"
    /\ extract_payload(response, FALSE).j = "object"
    /\ {"sentiment", "confidence"} \subseteq DOMAIN extract_payload(response, FALSE).fields

\* analyze_sentiment_ai without the except branch: an AI call that fails, or an
\* answer that is not the expected JSON, reaches the caller as an exception
analyze_sentiment_ai_no_fallback(enabled, text, response) ==
    IF ~enabled
    THEN fallback_sentiment_memo[text]
    ELSE IF sentiment_parsed(response)
    THEN Ok(extract_payload(response, FALSE).fields)
    ELSE Raise("JSONDecodeError")

analyze_sentiment_ai(enabled, text, response) ==
    IF enabled /\ sentiment_parsed(response)
    THEN Ok(extract_payload(response, FALSE).fields)
    ELSE fallback_sentiment_memo[text]

\* context.get('last_purchase', 'product')
context_last_purchase(context) ==
    IF "last_purchase" \in DOMAIN context THEN context.last_purchase ELSE Some("product")

\* the template pools; a question is the tuple of the pieces of its f-string
questions_map(survey_type, last_purchase) ==
    CASE survey_type = "Product Experience" ->
           << <<"How satisfied are you with your ", Format(last_purchase), "?">>,
              <<"Would you recommend this product to others?">>,
              <<"What could we improve about this product?">>,
              <<"What aspects of your ", Format(last_purchase), " exceeded expectations?">>,
              <<"Did the product arrive in the condition you expected?">>,
              <<"Is there any feature you wish this product had?">> >>
      [] survey_type = "Support Quality" ->
           << <<"How would you rate your support experience?">>,
              <<"Was your issue resolved effectively?">>,
              <<"What could we do to improve our support?">>,
              <<"Did our support team follow up with you in a timely manner?">>,
              <<"Is there something that would have made the support process easier?">> >>
      [] survey_type = "General Feedback" ->
           << <<"What do you enjoy most about our service?">>,
              <<"Would you recommend us to friends?">>,
              <<"Any features you'd like to see?">>,
              <<"How can we make your overall experience even better?">>,
              <<"Is there a feature you rarely use that we could improve?">> >>
      [] survey_type = "Engagement Check" ->
           << <<"How has your experience been with us?">>,
              <<"Is there anything we can help you with?">>,
              <<"What would make your experience better?">>,
              <<"Have you noticed any recent changes that you liked or disliked?">>,
              <<"What would encourage you to engage with us more often?">> >>
      [] OTHER ->
           << <<"How satisfied are you overall?">>,
              <<"What can we improve?">>,
              <<"Any additional feedback?">>,
              <<"Is there anything preventing you from being fully satisfied?">>,
              <<"How likely are you to continue using our service?">> >>

\* a sampler that pads the shuffled pool up to the count by starting over
sample_templates_padded(templates, num_questions, draw) ==
    [i \in 1..num_questions |-> templates[draw[((i - 1) % Len(templates)) + 1]]]

\* random.shuffle(templates) then templates[:num_questions] when the pool is
\* not larger than the count, random.sample(templates, k=num_questions)
\* otherwise; draw is the outcome of the random generator
sample_templates(templates, num_questions, draw) ==
    IF num_questions >= Len(templates)
    THEN SubSeq([i \in 1..Len(templates) |-> templates[draw[i]]], 1,
                Min(num_questions, Len(templates)))
    ELSE [i \in 1..num_questions |-> templates[draw[i]]]

_fallback_questions(survey_type, context, num_questions, draw) ==
    sample_templates(questions_map(survey_type, context_last_purchase(context)),
                     num_questions, draw)

\* whether the AI path yields its result: the model answered, json.loads
\* accepted the payload and len(questions) is defined for what it gave (a
\* list, a dict or a str)
questions_parsed(response) ==
    /\ response.kind = "text"
    /\ extract_payload(response, TRUE).j \in {"array", "object", "string"}

\* the result is a value as json.loads gives it; the fallback's is a list
generate_survey_questions_ai(enabled, user_context, survey_type, num_questions, response, draw) ==
    IF enabled /\ questions_parsed(response)
    THEN extract_payload(response, TRUE)
    ELSE JsonArray(_fallback_questions(survey_type, user_context, num_questions, draw))

(* ---------------------------------------------------------------------- *)
(* Long-term memory                                                        *)
(* ---------------------------------------------------------------------- *)

\* Python values handed to the storage by a caller other than the agent's own
\* methods: one field, named after the type
PyNone == [none |-> TRUE]

PyBool(b) == [bool |-> b]

PyInt(n) == [int |-> n]

PyStr(s) == [str |-> s]

PyList(items) == [list |-> items]

PyTuple(items) == [tuple |-> items]

\* a dict with str keys
PyDict(fields) == [dict |-> fields]

PyTypes == {"none", "bool", "int", "str", "list", "tuple", "dict"}

\* json.dump: the JSON document of a value; a tuple is written as an array
RECURSIVE json_dump(_)
json_dump(v) ==
    CASE "none" \in DOMAIN v -> [null |-> TRUE]
      [] "bool" \in DOMAIN v -> [boolean |-> v.bool]
      [] "int" \in DOMAIN v -> [number |-> v.int]
      [] "str" \in DOMAIN v -> [string |-> v.str]
      [] "list" \in DOMAIN v -> [array |-> [i \in DOMAIN v.list |-> json_dump(v.list[i])]]
      [] "tuple" \in DOMAIN v -> [array |-> [i \in DOMAIN v.tuple |-> json_dump(v.tuple[i])]]
      [] "dict" \in DOMAIN v -> [object |-> [k \in DOMAIN v.dict |-> json_dump(v.dict[k])]]

\* json.load: the value of a JSON document; an array is read as a list
RECURSIVE json_load(_)
json_load(doc) ==
    CASE "null" \in DOMAIN doc -> PyNone
      [] "boolean" \in DOMAIN doc -> PyBool(doc.boolean)
      [] "number" \in DOMAIN doc -> PyInt(doc.number)
      [] "string" \in DOMAIN doc -> PyStr(doc.string)
      [] "array" \in DOMAIN doc -> PyList([i \in DOMAIN doc.array |-> json_load(doc.array[i])])
      [] "object" \in DOMAIN doc -> PyDict([k \in DOMAIN doc.object |-> json_load(doc.object[k])])

\* a storage that writes a container as its text (json.dump with default=str
\* semantics applied to lists and dicts as well)
json_stored_as_text(value) ==
    IF DOMAIN value \subseteq {"list", "tuple", "dict"}
    THEN PyStr("[...]")
    ELSE value

\* what json.load gives back for what json.dump wrote.  The dicts the agent
\* itself stores (records of the model) come back as they were written.
json_stored(value) ==
    IF DOMAIN value \subseteq PyTypes
    THEN json_load(json_dump(value))
    ELSE value

\* a file of the storage directory: a JSON document, or what is left of one
\* whose json.dump did not finish after open(path, 'w') truncated the file
JsonFile(data) == [state |-> "json", data |-> data]

PartialFile == [state |-> "partial"]

\* a write that keeps the file of a key that already has one
LTMFileStorage_write_once(store, key, value, clock, io) ==
    IF key \in DOMAIN store
    THEN [ret |-> io = "ok", files |-> store]
    ELSE [ret |-> io = "ok",
          files |-> [k \in DOMAIN store \cup {key} |->
                        IF k = key
                        THEN JsonFile([value |-> value, stored_at |-> get_timestamp(clock)])
                        ELSE store[k]]]

\* save_json through LTMFileStorage.write; io is what the file system does
LTMFileStorage_write(store, key, value, clock, io) ==
    LET data == [value |-> json_stored(value), stored_at |-> get_timestamp(clock)]
        put(content) == [k \in DOMAIN store \cup {key} |-> IF k = key THEN content ELSE store[k]]
    IN CASE io = "ok" -> [ret |-> TRUE, files |-> put(JsonFile(data))]
         [] io = "open_fail" -> [ret |-> FALSE, files |-> store]
         [] OTHER -> [ret |-> FALSE, files |-> put(PartialFile)]

\* load_json through LTMFileStorage.read: None, or Some(value)
LTMFileStorage_read(store, key, io) ==
    IF io # "ok"
    THEN None
    ELSE IF key \notin DOMAIN store
    THEN None
    ELSE IF store[key].state # "json"
    THEN None
    ELSE Some(store[key].data.value)

write_to_ltm(storage, store, key, value, clock, io) ==
    IF storage = "None"
    THEN [ret |-> FALSE, files |-> store]
    ELSE LTMFileStorage_write(store, key, value, clock, io)

read_from_ltm(storage, store, key, io) ==
    IF storage = "None"
    THEN None
    ELSE LTMFileStorage_read(store, key, io)

\* f"last_analysis_{user_id}"
last_analysis_key(user_id) == <<"last_analysis_", user_id>>

\* hash(text) % 10000, fixed for the life of the process by its hash seed:
\* seed 0 keeps the sample texts apart, any other seed makes them collide
hash_mod(seed, text) ==
    IF seed = 0
    THEN IF text.type = "str"
         THEN CHOOSE i \in DOMAIN ActivityTexts : ActivityTexts[i] = text.val
         ELSE 0
    ELSE 7

\* f"sentiment_{hash(text) % 10000}"
sentiment_key(seed, text) == <<"sentiment_", ToString(hash_mod(seed, text))>>

(* ---------------------------------------------------------------------- *)
(* Decision engine                                                         *)
(* ---------------------------------------------------------------------- *)

\* questions is None or what generate_survey_questions_ai returned
_create_response(survey_trigger, survey_type, priority, reason, questions, clock) ==
    IF survey_trigger
    THEN [survey_trigger |-> survey_trigger, reason |-> reason,
          timestamp |-> get_timestamp(clock), survey_type |-> survey_type,
          priority |-> priority,
          questions |-> IF JsonFalsy(questions) THEN JsonArray(<<>>) ELSE questions]
    ELSE [survey_trigger |-> survey_trigger, reason |-> reason,
          timestamp |-> get_timestamp(clock)]

\* text[:100]; int and None are not subscriptable
text_snippet(text) ==
    IF text.type \in {"str", "tuple"}
    THEN Ok([type |-> text.type, val |-> SubSeq(text.val, 1, Min(100, Len(text.val)))])
    ELSE Raise("TypeError")

\* _analyze_sentiment that raises when the sample record could not be written
store_sentiment_checked(result, snippet, storage, store, key, clock, io) ==
    IF result.exc # ""
    THEN [exc |-> result.exc, files |-> store]
    ELSE IF snippet.exc # ""
    THEN [exc |-> snippet.exc, files |-> store]
    ELSE IF ~write_to_ltm(storage, store, key,
                          [text |-> snippet.val,
                           sentiment |-> result.val.sentiment,
                           confidence |-> result.val.confidence,
                           timestamp |-> get_timestamp(clock)],
                          clock, io).ret
    THEN [exc |-> "RuntimeError", files |-> store]
    ELSE [exc |-> "", val |-> result.val,
          files |-> write_to_ltm(storage, store, key,
                                 [text |-> snippet.val,
                                  sentiment |-> result.val.sentiment,
                                  confidence |-> result.val.confidence,
                                  timestamp |-> get_timestamp(clock)],
                                 clock, io).files]

\* the second half of _analyze_sentiment: the sample record is built (which
\* raises on a text that cannot be sliced) and written; the outcome carries
\* the files afterwards
store_sentiment(result, snippet, storage, store, key, clock, io) ==
    IF result.exc # ""
    THEN [exc |-> result.exc, files |-> store]
    ELSE IF snippet.exc # ""
    THEN [exc |-> snippet.exc, files |-> store]
    ELSE [exc |-> "", val |-> result.val,
          files |-> write_to_ltm(storage, store, key,
                                 [text |-> snippet.val,
                                  sentiment |-> result.val.sentiment,
                                  confidence |-> result.val.confidence,
                                  timestamp |-> get_timestamp(clock)],
                                 clock, io).files]

\* e.sent is what the AI model does with the prompt, e.io_sent what the file
\* system does with the write
_analyze_sentiment(enabled, storage, store, seed, text, clock, e) ==
    store_sentiment(analyze_sentiment_ai(enabled, text, e.sent), text_snippet(text),
                    storage, store, sentiment_key(seed, text), clock, e.io_sent)

\* "support" in recent_activity, without lower()
mentions_support_exact ==
    [a \in {x \in Activities : x.type = "str"} |-> IsSubstring(SupportWord, a.val)]

\* "support" in recent_activity.lower(), over the str activities of the model
mentions_support ==
    [a \in {x \in Activities : x.type = "str"} |-> IsSubstring(SupportWord, Lower(a.val))]

\* the rule table with the support rule ahead of the purchase rule
decision_rule_support_first(sentiment, recent_activity, has_recent_purchase) ==
    IF sentiment = "negative" /\ recent_activity.type = "str"
           /\ IsSubstring(SupportWord, Lower(recent_activity.val))
    THEN Ok("Support Quality")
    ELSE IF sentiment = "negative" /\ has_recent_purchase
    THEN Ok("Product Experience")
    ELSE IF sentiment = "negative" /\ recent_activity.type # "str"
    THEN Raise("AttributeError")
    ELSE IF sentiment = "negative"
    THEN Ok("Engagement Check")
    ELSE Ok("")

\* the rule table with a rule for a satisfied buyer, as the integration tests
\* expect it
decision_rule_positive_purchase(sentiment, recent_activity, has_recent_purchase) ==
    IF sentiment = "negative" /\ has_recent_purchase
    THEN Ok("Product Experience")
    ELSE IF sentiment = "positive" /\ has_recent_purchase
    THEN Ok("General Feedback")
    ELSE IF sentiment = "negative" /\ recent_activity.type # "str"
    THEN Raise("AttributeError")
    ELSE IF sentiment = "negative" /\ IsSubstring(SupportWord, Lower(recent_activity.val))
    THEN Ok("Support Quality")
    ELSE IF sentiment = "negative"
    THEN Ok("Engagement Check")
    ELSE Ok("")

\* the branch of the rule table that is taken, named by its survey type ("" for
\* the default); "support" is only looked for when the sentiment is negative
\* and the first rule does not match, and only str has lower()
decision_rule(sentiment, recent_activity, has_recent_purchase) ==
    IF sentiment = "negative" /\ has_recent_purchase
    THEN Ok("Product Experience")
    ELSE IF sentiment = "negative" /\ recent_activity.type # "str"
    THEN Raise("AttributeError")
    ELSE IF sentiment = "negative" /\ mentions_support[recent_activity]
    THEN Ok("Support Quality")
    ELSE IF sentiment = "negative"
    THEN Ok("Engagement Check")
    ELSE Ok("")

\* the priority each triggering branch passes to _create_response
rule_priority(survey_type) ==
    IF survey_type = "Engagement Check" THEN "medium" ELSE "high"

\* the reason f-string of each branch
rule_reason(survey_type, sentiment, sentiment_confidence) ==
    CASE survey_type = "Product Experience" ->
           <<"Negative sentiment detected after purchase (AI confidence: ",
             ToString(sentiment_confidence), "%)">>
      [] survey_type = "Support Quality" ->
           <<"Negative support experience detected (AI confidence: ",
             ToString(sentiment_confidence), "%)">>
      [] survey_type = "Engagement Check" ->
           <<"Negative sentiment detected (AI confidence: ",
             ToString(sentiment_confidence), "%)">>
      [] OTHER ->
           <<"No survey needed for ", sentiment, " sentiment (AI confidence: ",
             ToString(sentiment_confidence), "%)">>

\* the branch taken: its response, and how often the question generator ran
rule_response(rule, enabled, user_context, clock, e) ==
    IF rule.exc # ""
    THEN [exc |-> rule.exc, generated |-> 0]
    ELSE IF rule.val = ""
    THEN [exc |-> "", generated |-> 0,
          val |-> _create_response(FALSE, "", "low",
                      rule_reason("", user_context.sentiment, user_context.confidence),
                      JsonNull, clock)]
    ELSE [exc |-> "", generated |-> 1,
          val |-> _create_response(TRUE, rule.val, rule_priority(rule.val),
                      rule_reason(rule.val, user_context.sentiment, user_context.confidence),
                      generate_survey_questions_ai(enabled, user_context, rule.val, 3,
                                                   e.ques, e.draw),
                      clock)]

_make_decision(enabled, sentiment, sentiment_confidence, recent_activity, has_recent_purchase, last_purchase, user_id, clock, e) ==
    rule_response(decision_rule(sentiment, recent_activity, has_recent_purchase), enabled,
                  [user_id |-> user_id, recent_activity |-> recent_activity,
                   last_purchase |-> last_purchase, sentiment |-> sentiment,
                   confidence |-> sentiment_confidence],
                  clock, e)

\* The outcome of one analyze_request call: the exception or the response
\* (val), the files afterwards, and the locals of the call: what the read at
\* the start found, the sentiment that was classified, how often the question
\* generator ran.
call_outcome(exc, store, previous_analysis, classified, generated) ==
    [exc |-> exc, files |-> store, previous_analysis |-> previous_analysis,
     classified |-> classified, generated |-> generated]

\* analyze_request that does not trigger a survey for a user it has a record of
after_decision_once(response, sentiment_analysis, previous_analysis) ==
    IF response.exc # ""
    THEN call_outcome(response.exc, sentiment_analysis.files, previous_analysis,
                      Some(sentiment_analysis.val), response.generated)
    ELSE call_outcome("", sentiment_analysis.files, previous_analysis,
                      Some(sentiment_analysis.val), response.generated)
             @@ [val |-> IF previous_analysis = None
                         THEN response.val
                         ELSE [response.val EXCEPT !.survey_trigger = FALSE]]

\* analyze_request from the decision on
after_decision(response, sentiment_analysis, previous_analysis) ==
    IF response.exc # ""
    THEN call_outcome(response.exc, sentiment_analysis.files, previous_analysis,
                      Some(sentiment_analysis.val), response.generated)
    ELSE call_outcome("", sentiment_analysis.files, previous_analysis,
                      Some(sentiment_analysis.val), response.generated)
             @@ [val |-> response.val]

\* analyze_request from the classification on
after_sentiment(sentiment_analysis, enabled, request_data, previous_analysis, clock, e) ==
    IF sentiment_analysis.exc # ""
    THEN call_outcome(sentiment_analysis.exc, sentiment_analysis.files, previous_analysis,
                      None, 0)
    ELSE after_decision(_make_decision(enabled, sentiment_analysis.val.sentiment,
                                       sentiment_analysis.val.confidence,
                                       request_data.recent_activity,
                                       Truthy(request_data.last_purchase),
                                       request_data.last_purchase, request_data.user_id,
                                       clock, e),
                        sentiment_analysis, previous_analysis)

\* analyze_request with the classification ahead of the cooldown check
analyze_request_classify_first(enabled, storage, store, seed, request_data, clock, e) ==
    IF ~_should_send_survey(request_data.last_survey_date, clock)
    THEN call_outcome("", _analyze_sentiment(enabled, storage, store, seed,
                                             request_data.recent_activity, clock, e).files,
                      read_from_ltm(storage, store, last_analysis_key(request_data.user_id),
                                    e.io_read),
                      None, 0)
             @@ [val |-> _create_response(FALSE, "", "low", <<"Survey sent too recently">>,
                                          JsonNull, clock)]
    ELSE after_sentiment(_analyze_sentiment(enabled, storage, store, seed,
                                            request_data.recent_activity, clock, e),
                         enabled, request_data,
                         read_from_ltm(storage, store, last_analysis_key(request_data.user_id),
                                       e.io_read),
                         clock, e)

analyze_request(enabled, storage, store, seed, request_data, clock, e) ==
    IF ~_should_send_survey(request_data.last_survey_date, clock)
    THEN call_outcome("", store,
                      read_from_ltm(storage, store, last_analysis_key(request_data.user_id),
                                    e.io_read),
                      None, 0)
             @@ [val |-> _create_response(FALSE, "", "low", <<"Survey sent too recently">>,
                                          JsonNull, clock)]
    ELSE after_sentiment(_analyze_sentiment(enabled, storage, store, seed,
                                            request_data.recent_activity, clock, e),
                         enabled, request_data,
                         read_from_ltm(storage, store, last_analysis_key(request_data.user_id),
                                       e.io_read),
                         clock, e)

\* the outcome of process_task once the write w of the record is done
stored_outcome(result, w) ==
    [files |-> w.files, stored |-> w.ret] @@ result

\* process_task with the write in a finally clause: the record is written
\* whether analyze_request returned or raised
store_analysis_finally(result, storage, user_id, clock, io) ==
    IF user_id = ""
    THEN result @@ [stored |-> FALSE]
    ELSE stored_outcome(result,
                        write_to_ltm(storage, result.files, last_analysis_key(user_id),
                                     [timestamp |-> get_timestamp(clock),
                                      result |-> IF result.exc = ""
                                                 THEN result.val
                                                 ELSE [error |-> result.exc]],
                                     clock, io))

\* process_task after analyze_request: the exception passes through; the
\* last_analysis record is written when user_id is truthy.  stored is what
\* that write returned (FALSE when it was not attempted).
store_analysis(result, storage, user_id, clock, io) ==
    IF result.exc # "" \/ user_id = ""
    THEN result @@ [stored |-> FALSE]
    ELSE stored_outcome(result,
                        write_to_ltm(storage, result.files, last_analysis_key(user_id),
                                     [timestamp |-> get_timestamp(clock),
                                      result |-> result.val],
                                     clock, io))

process_task(enabled, storage, store, seed, task_data, clock, e) ==
    store_analysis(analyze_request(enabled, storage, store, seed, task_data, clock, e),
                   storage, task_data.user_id, clock, e.io_last)

(* ---------------------------------------------------------------------- *)
(* The environment of one call                                             *)
(* ---------------------------------------------------------------------- *)

AiNegative == [sentiment |-> "negative", confidence |-> 85, reason |-> "the user reports a problem"]

AiPositive == [sentiment |-> "positive", confidence |-> 90, reason |-> "the user is pleased"]

AiUnexpected == [sentiment |-> "mixed", confidence |-> 150, reason |-> "hard to say"]

\* what the AI model may do with the sentiment prompt
SentimentResponses ==
    { AiRaises,
      AiText("none", FALSE, JsonInvalid),
      AiText("none", TRUE, JsonObject(AiNegative)),
      AiText("none", FALSE, JsonObject([sentiment |-> "negative"])),
      AiText("none", FALSE, JsonArray(<<>>)),
      AiText("json", TRUE, JsonObject(AiNegative)),
      AiText("plain", FALSE, JsonObject(AiPositive)),
      AiText("none", FALSE, JsonObject(AiUnexpected)) }

AiQuestions ==
    << <<"What went wrong with your order?">>,
       <<"How can we put it right?">>,
       <<"How likely are you to buy from us again?">> >>

\* what the AI model may do with the question prompt
QuestionResponses ==
    { AiRaises,
      AiText("none", FALSE, JsonInvalid),
      AiText("none", FALSE, JsonNumber),
      AiText("none", FALSE, JsonArray(AiQuestions)),
      AiText("none", TRUE, JsonArray(SubSeq(AiQuestions, 1, 2))),
      AiText("json", TRUE, JsonArray(SubSeq(AiQuestions, 2, 3))),
      AiText("none", FALSE, JsonArray(<<>>)),
      AiText("none", FALSE, JsonObject([error |-> "no questions available"])),
      AiText("none", FALSE, JsonString(<<"Sorry, no questions.">>)) }

\* the draws of the random generator that are explored: the runs of three
\* consecutive templates of a pool of n
SampleDraws(n) == {[i \in 1..3 |-> ((s + i - 2) % n) + 1] : s \in 1..n}

WriteOutcomes == {"ok", "open_fail", "dump_fail"}

ReadOutcomes == {"ok", "fail"}

DefaultEnv ==
    [sent |-> AiRaises, ques |-> AiRaises, draw |-> <<1, 2, 3>>,
     io_read |-> "ok", io_sent |-> "ok", io_last |-> "ok"]

\* The environments of a call to op (process_task or analyze_request) that
\* lead to different outcomes: the AI answers count only if the AI is enabled
\* and asked, a draw only if templates are sampled, a file-system outcome only
\* if the file is touched (process_task also writes the last_analysis record),
\* and of the answers that are parsed to the same value one is kept.
Envs(op, req) ==
    LET run(e) ==
            IF op = "process_task"
            THEN process_task(ai_enabled, ltm, files, hashseed, req, now, e)
            ELSE analyze_request(ai_enabled, ltm, files, hashseed, req, now, e)
        gate == _should_send_survey(req.last_survey_date, now)
        classify(s) == analyze_sentiment_ai(ai_enabled, req.recent_activity, s)
        lookup(r) == read_from_ltm(ltm, files, last_analysis_key(req.user_id), r)
        sents == IF ai_enabled /\ gate
                 THEN {CHOOSE s \in SentimentResponses : classify(s) = y :
                           y \in {classify(s) : s \in SentimentResponses}}
                 ELSE {AiRaises}
        reads == IF ltm = "None"
                 THEN {"ok"}
                 ELSE {CHOOSE r \in ReadOutcomes : lookup(r) = y :
                           y \in {lookup(r) : r \in ReadOutcomes}}
        writes == IF ltm = "None" THEN {"ok"} ELSE WriteOutcomes
        stage1 == {[DefaultEnv EXCEPT !.sent = s, !.io_read = r] : s \in sents, r \in reads}
        stage2(e) ==
            IF run(e).classified = None
            THEN {e}
            ELSE {[e EXCEPT !.io_sent = w] : w \in writes}
        stage3(e) ==
            LET r == run(e)
            IN IF r.generated = 0
               THEN {e}
               ELSE LET context == [last_purchase |-> req.last_purchase]
                        type == r.val.survey_type
                        pairs == (IF ai_enabled THEN QuestionResponses ELSE {AiRaises})
                                     \X SampleDraws(Len(questions_map(type, None)))
                        generate(qd) ==
                            generate_survey_questions_ai(ai_enabled, context, type, 3, qd[1], qd[2])
                    IN {[e EXCEPT !.ques = qd[1], !.draw = qd[2]] :
                            qd \in {CHOOSE x \in pairs : generate(x) = y :
                                        y \in {generate(x) : x \in pairs}}}
        stage4(e) ==
            IF op = "process_task" /\ req.user_id # "" /\ run(e).exc = ""
            THEN {[e EXCEPT !.io_last = w] : w \in writes}
            ELSE {e}
    IN UNION {UNION {UNION {stage4(e3) : e3 \in stage3(e2)} : e2 \in stage2(e1)} : e1 \in stage1}

(* ---------------------------------------------------------------------- *)
(* State                                                                   *)
(* ---------------------------------------------------------------------- *)

EmptyFiles == [k \in {} |-> PartialFile]

NoRequest == Request("", NoneActivity, None, NoDate)

\* ret is the last call as its caller saw it, with the locals the call went
\* through: the response or the exception, the sentiment that was classified,
\* how often the question generator ran, what the read at the start found and
\* what the write of the last_analysis record returned
NoCall ==
    [op |-> "none", request |-> NoRequest, exc |-> "", value |-> None, classified |-> None,
     generated |-> 0, previous_analysis |-> None, stored |-> FALSE]

Returned(op, req, r) ==
    [op |-> op, request |-> req, exc |-> r.exc,
     value |-> IF r.exc = "" THEN Some(r.val) ELSE None,
     classified |-> r.classified, generated |-> r.generated,
     previous_analysis |-> r.previous_analysis, stored |-> r.stored]

\* a message as send_message queued it
QueuedMessage(recipient, message_obj, clock) ==
    [recipient |-> recipient, message |-> message_obj, timestamp |-> get_timestamp(clock)]

\* the step of a call whose outcome is r: the files are as the call left
\* them, the caller has the response or the exception, the clock moved on
Finish(op, req, r) ==
    /\ files' = r.files
    /\ ret' = Returned(op, req, r)
    /\ now' = now + 1
    /\ UNCHANGED <<ai_enabled, ltm, message_queue, hashseed, threads>>

ProcessTask(task_data, e) ==
    Finish("process_task", task_data,
           process_task(ai_enabled, ltm, files, hashseed, task_data, now, e))

AnalyzeRequest(request_data, e) ==
    Finish("analyze_request", request_data,
           analyze_request(ai_enabled, ltm, files, hashseed, request_data, now, e)
               @@ [stored |-> FALSE])

(* ---------------------------------------------------------------------- *)
(* The first call after start                                              *)
(* ---------------------------------------------------------------------- *)

\* last_survey_date values around the cooldown boundary
SurveyDates ==
    {NoDate, EmptyDate, GarbageDate,
     DateOnly(0 - MIN_DAYS_BETWEEN_SURVEYS), DateOnly(1 - MIN_DAYS_BETWEEN_SURVEYS),
     DateOnly(1),
     DateTimeOffset(1 - MIN_DAYS_BETWEEN_SURVEYS, 0)}
        \cup {DateTime(0 - MIN_DAYS_BETWEEN_SURVEYS, t) : t \in 1..(TicksPerDay - 1)}

Requests ==
    {Request(u, a, p, d) : u \in UserIds, a \in Activities, p \in Purchases, d \in SurveyDates}

\* what an earlier run of the agent left on disk: process_task for u1, a day ago
PriorRequest == Request("u1", StrActivity(TxtBroken), None, NoDate)

PriorFiles(seed) ==
    process_task(FALSE, "LTMFileStorage", EmptyFiles, seed, PriorRequest,
                 0 - TicksPerDay, DefaultEnv).files

PriorQueue ==
    <<QueuedMessage("SupervisorRegistry", [type |-> "completion_report"], 0 - TicksPerDay)>>

\* no thread is inside a storage call
NoThreads == <<>>

InitDecide ==
    /\ ai_enabled \in BOOLEAN
    /\ ltm \in {"None", "LTMFileStorage"}
    /\ hashseed \in {0, 1}
    /\ now = 0
    /\ ret = NoCall
    /\ threads = NoThreads
    /\ \/ files = EmptyFiles /\ message_queue = <<>>
       \/ files = PriorFiles(hashseed) /\ message_queue = PriorQueue

\* the first call after start is a task handed over by the supervisor ...
FirstProcessTask ==
    /\ ret.op = "none"
    /\ \E req \in Requests :
           \E e \in Envs("process_task", req) : ProcessTask(req, e)

\* ... or a direct analysis
FirstAnalyzeRequest ==
    /\ ret.op = "none"
    /\ \E req \in Requests :
           \E e \in Envs("analyze_request", req) : AnalyzeRequest(req, e)

NextDecide == FirstProcessTask \/ FirstAnalyzeRequest

SpecDecide == InitDecide /\ [][NextDecide]_vars


(* ---------------------------------------------------------------------- *)
(* Single functions, called on their own                                   *)
(* ---------------------------------------------------------------------- *)

\* days of last_survey_date explored on either side of today and of the
\* cooldown boundary
DaySlack == 1

\* ret after a call of one function: its name, its arguments, what it returned
UnitCall(op, args, result) == [op |-> op, args |-> args, result |-> result]

GateDays ==
    ((0 - MIN_DAYS_BETWEEN_SURVEYS) - DaySlack)..((0 - MIN_DAYS_BETWEEN_SURVEYS) + DaySlack)
        \cup (0 - DaySlack)..DaySlack

\* last_survey_date values handed to _should_send_survey
GateDates ==
    {NoDate, EmptyDate, GarbageDate}
        \cup {DateOnly(d) : d \in GateDays}
        \cup {DateTime(d, t) : d \in GateDays, t \in 0..(TicksPerDay - 1)}
        \cup {DateTimeOffset(d, t) : d \in GateDays, t \in 0..(TicksPerDay - 1)}

ShouldSendSurvey ==
    /\ ret.op = "none"
    /\ \E d \in GateDates :
           ret' = UnitCall("_should_send_survey",
                           [last_survey_date |-> d, clock |-> now],
                           _should_send_survey(d, now))
    /\ UNCHANGED <<ai_enabled, ltm, files, message_queue, now, hashseed, threads>>

\* the most keywords of one kind put into a text
MaxKeywords == 4

\* the words joined by single spaces
RECURSIVE JoinWords(_)
JoinWords(words) ==
    IF Len(words) = 0
    THEN <<>>
    ELSE IF Len(words) = 1
    THEN words[1]
    ELSE words[1] \o <<" ">> \o JoinWords(Tail(words))

\* a text made of the first a negative and the first b positive keywords
KeywordText(a, b) ==
    JoinWords(SubSeq(negative_keywords, 1, a) \o SubSeq(positive_keywords, 1, b))

\* texts handed to _fallback_sentiment
SentimentTexts ==
    {KeywordText(a, b) : a \in 0..MaxKeywords, b \in 0..MaxKeywords}
        \cup {ActivityTexts[i] : i \in DOMAIN ActivityTexts}

FallbackSentiment ==
    /\ ret.op = "none"
    /\ \E text \in SentimentTexts :
           ret' = UnitCall("_fallback_sentiment", [text |-> text],
                           _fallback_sentiment(StrActivity(text)))
    /\ UNCHANGED <<ai_enabled, ltm, files, message_queue, now, hashseed, threads>>

AnalyzeSentimentAi ==
    /\ ret.op = "none"
    /\ \E i \in DOMAIN ActivityTexts, response \in SentimentResponses :
           ret' = UnitCall("analyze_sentiment_ai",
                           [text |-> ActivityTexts[i], response |-> response],
                           analyze_sentiment_ai(ai_enabled, StrActivity(ActivityTexts[i]),
                                                response))
    /\ UNCHANGED <<ai_enabled, ltm, files, message_queue, now, hashseed, threads>>

\* the largest number of questions asked for
MaxCount == 6

\* the survey types of the rule table and the pools, and one without a pool
SurveyTypes ==
    {"Product Experience", "Support Quality", "General Feedback", "Engagement Check",
     "Loyalty"}

\* user_context values: last_purchase a name, empty, None or missing
Contexts ==
    {[last_purchase |-> Some("Laptop")], [last_purchase |-> Some("")],
     [last_purchase |-> None], [user_id |-> "u1"]}

\* outcomes of random.shuffle on a pool of n that are explored: its rotations
\* and their reversals; random.sample's outcome is a prefix of one of them
PoolDraws(n) ==
    {[i \in 1..n |-> ((s + i - 2) % n) + 1] : s \in 1..n}
        \cup {[i \in 1..n |-> ((s + n - i) % n) + 1] : s \in 1..n}

FallbackQuestions ==
    /\ ret.op = "none"
    /\ \E survey_type \in SurveyTypes, context \in Contexts, num_questions \in 0..MaxCount :
           \E draw \in PoolDraws(Len(questions_map(survey_type, None))) :
               ret' = UnitCall("_fallback_questions",
                               [survey_type |-> survey_type, context |-> context,
                                num_questions |-> num_questions, draw |-> draw],
                               _fallback_questions(survey_type, context, num_questions, draw))
    /\ UNCHANGED <<ai_enabled, ltm, files, message_queue, now, hashseed, threads>>

GenerateSurveyQuestionsAi ==
    /\ ret.op = "none"
    /\ \E survey_type \in SurveyTypes, context \in Contexts, num_questions \in {1, 3} :
           \E response \in QuestionResponses, draw \in SampleDraws(Len(questions_map(survey_type, None))) :
               ret' = UnitCall("generate_survey_questions_ai",
                               [survey_type |-> survey_type, context |-> context,
                                num_questions |-> num_questions, response |-> response,
                                draw |-> draw],
                               generate_survey_questions_ai(ai_enabled, context, survey_type,
                                                            num_questions, response, draw))
    /\ UNCHANGED <<ai_enabled, ltm, files, message_queue, now, hashseed, threads>>

\* get_status without the hasattr test
get_status_unguarded(enabled, storage, store, queue, clock) ==
    IF storage = "None"
    THEN Raise("AttributeError")
    ELSE Ok([agent_name |-> "ProactiveSurveyAgent", status |-> "healthy",
             ai_enabled |-> enabled,
             ai_model |-> IF enabled THEN "gemini-pro" ELSE "fallback",
             ltm_keys |-> Cardinality(DOMAIN store),
             queued_messages |-> Len(queue),
             timestamp |-> get_timestamp(clock)])

\* get_status; the identifiers the base class keeps are left out
get_status(enabled, storage, store, queue, clock) ==
    Ok([agent_name |-> "ProactiveSurveyAgent", status |-> "healthy",
        ai_enabled |-> enabled,
        ai_model |-> IF enabled THEN "gemini-pro" ELSE "fallback",
        ltm_keys |-> IF storage = "None" THEN 0 ELSE Cardinality(DOMAIN store),
        queued_messages |-> Len(queue),
        timestamp |-> get_timestamp(clock)])

GetStatus ==
    /\ ret.op = "none"
    /\ ret' = UnitCall("get_status", [clock |-> now],
                       get_status(ai_enabled, ltm, files, message_queue, now))
    /\ UNCHANGED <<ai_enabled, ltm, files, message_queue, now, hashseed, threads>>

\* keys written by a caller of the storage
UnitKeys == {<<"test_key", "">>, <<"last_analysis_", "u1">>}

\* values json represents: null, booleans, numbers, strings, lists and dicts
JsonRepresentable ==
    {PyNone, PyBool(FALSE), PyInt(0), PyInt(42), PyStr(""), PyStr("test_value"),
     PyList(<<>>), PyList(<<PyInt(1), PyStr("a"), PyNone>>),
     PyDict(<<>>), PyDict([data |-> PyStr("test_value")]),
     PyDict([items |-> PyList(<<PyDict([n |-> PyInt(1)]), PyList(<<>>)>>)])}

\* values json.dump accepts
StoredValues ==
    JsonRepresentable
        \cup {PyTuple(<<PyInt(1), PyInt(2)>>), PyDict([pair |-> PyTuple(<<>>)])}

\* the step of a write_to_ltm call whose outcome is w
FinishWrite(key, value, w) ==
    /\ files' = w.files
    /\ ret' = UnitCall("write_to_ltm", [key |-> key, value |-> value], w.ret)
    /\ UNCHANGED <<ai_enabled, ltm, message_queue, now, hashseed, threads>>

WriteToLtm ==
    /\ ret.op = "none"
    /\ \E key \in UnitKeys, value \in StoredValues, io \in WriteOutcomes :
           FinishWrite(key, value, write_to_ltm(ltm, files, key, value, now, io))

\* a read, as the first call or right after a write
ReadFromLtm ==
    /\ ret.op \in {"none", "write_to_ltm"}
    /\ \E key \in UnitKeys, io \in ReadOutcomes :
           ret' = UnitCall("read_from_ltm", [key |-> key, io |-> io],
                           read_from_ltm(ltm, files, key, io))
    /\ UNCHANGED <<ai_enabled, ltm, files, message_queue, now, hashseed, threads>>

\* requests for the calls of the agent made next to the single functions
UnitRequests ==
    {Request(u, StrActivity(t), p, d) :
        u \in UserIds, t \in {TxtBroken, TxtHappyOrder}, p \in {None, Some("Laptop")},
        d \in {NoDate, DateOnly(0)}}

UnitProcessTask ==
    /\ ret.op = "none"
    /\ \E req \in UnitRequests :
           \E e \in Envs("process_task", req) : ProcessTask(req, e)

UnitAnalyzeRequest ==
    /\ ret.op = "none"
    /\ \E req \in UnitRequests :
           \E e \in Envs("analyze_request", req) : AnalyzeRequest(req, e)

InitUnits ==
    /\ ai_enabled \in BOOLEAN
    /\ ltm \in {"None", "LTMFileStorage"}
    /\ hashseed = 0
    /\ now \in 0..(TicksPerDay - 1)
    /\ ret = NoCall
    /\ threads = NoThreads
    /\ files = (IF ltm = "None" THEN EmptyFiles ELSE PriorFiles(0))
    /\ message_queue = (IF ai_enabled THEN PriorQueue ELSE <<>>)

NextUnits ==
    \/ ShouldSendSurvey
    \/ FallbackSentiment
    \/ AnalyzeSentimentAi
    \/ FallbackQuestions
    \/ GenerateSurveyQuestionsAi
    \/ GetStatus
    \/ WriteToLtm
    \/ ReadFromLtm
    \/ UnitProcessTask
    \/ UnitAnalyzeRequest

SpecUnits == InitUnits /\ [][NextUnits]_vars


(* ---------------------------------------------------------------------- *)
(* Threads inside the file storage                                         *)
(* ---------------------------------------------------------------------- *)

\* the longest list a writer stores beyond its first entry
MaxItems == 1

Writers == {"w1", "w2"}

ConcurrentKey == <<"test_key", "">>

\* the value the key has before the writers start, and the values writer w may
\* store: lists of one entry or more, naming the writer
OldValue == PyList(<<>>)

WriterValues(w) == {PyList([i \in 1..n |-> PyStr(w)]) : n \in 1..(MaxItems + 1)}

\* the dict LTMFileStorage.write hands to save_json
StoredDocument(value, clock) == [value |-> json_stored(value), stored_at |-> get_timestamp(clock)]

\* The text json.dump produces for a document, in blocks; a longer list takes
\* more blocks.
text_blocks(data) == 1 + Len(data.value.list)

file_text(data) == [i \in 1..text_blocks(data) |-> [of |-> data, block |-> i]]

\* a file as the bytes on disk
TextFile(text) == [state |-> "text", text |-> text]

\* open(file_path, 'w'): the file is created or truncated
open_truncate(store, key) ==
    [k \in DOMAIN store \cup {key} |-> IF k = key THEN TextFile(<<>>) ELSE store[k]]

\* leaving `with open(...)`: the buffered text is written at the start of the
\* file, over what is there; what lies beyond it stays
flush_text(store, key, text) ==
    [store EXCEPT ![key] =
        TextFile([i \in 1..(IF Len(text) > Len(store[key].text)
                            THEN Len(text)
                            ELSE Len(store[key].text)) |->
                     IF i <= Len(text) THEN text[i] ELSE store[key].text[i]])]

\* json.load of the bytes: the document they spell, if they spell one
parsed_file(file) ==
    IF Len(file.text) = 0
    THEN PartialFile
    ELSE IF file.text = file_text(file.text[1].of)
    THEN JsonFile(file.text[1].of)
    ELSE PartialFile

\* the storage directory as load_json finds it
parsed_files(store) == [k \in DOMAIN store |-> parsed_file(store[k])]

\* a writer enters save_json and opens the file
SaveJsonOpen(w) ==
    /\ threads[w].pc = "start"
    /\ files' = open_truncate(files, ConcurrentKey)
    /\ threads' = [threads EXCEPT ![w].pc = "opened"]
    /\ UNCHANGED <<ai_enabled, ltm, message_queue, now, hashseed, ret>>

\* a writer leaves save_json: json.dump, flush and close
SaveJsonClose(w) ==
    /\ threads[w].pc = "opened"
    /\ files' = flush_text(files, ConcurrentKey,
                           file_text(StoredDocument(threads[w].value, now)))
    /\ threads' = [threads EXCEPT ![w].pc = "done"]
    /\ UNCHANGED <<ai_enabled, ltm, message_queue, now, hashseed, ret>>

\* a reader runs LTMFileStorage.read
ConcurrentRead ==
    /\ ret' = UnitCall("LTMFileStorage.read", [key |-> ConcurrentKey],
                       LTMFileStorage_read(parsed_files(files), ConcurrentKey, "ok"))
    /\ UNCHANGED <<ai_enabled, ltm, files, message_queue, now, hashseed, threads>>

InitConcurrent ==
    /\ ai_enabled = FALSE
    /\ ltm = "LTMFileStorage"
    /\ hashseed = 0
    /\ now = 0
    /\ ret = NoCall
    /\ message_queue = <<>>
    /\ files = [k \in {ConcurrentKey} |->
                   TextFile(file_text(StoredDocument(OldValue, 0 - TicksPerDay)))]
    /\ threads \in {[w \in Writers |-> [pc |-> "start", value |-> v[w]]] :
                       v \in [Writers -> UNION {WriterValues(w) : w \in Writers}]}
    /\ \A w \in Writers : threads[w].value \in WriterValues(w)

NextConcurrent ==
    \/ \E w \in Writers : SaveJsonOpen(w)
    \/ \E w \in Writers : SaveJsonClose(w)
    \/ ConcurrentRead

SpecConcurrent == InitConcurrent /\ [][NextConcurrent]_vars


(* ---------------------------------------------------------------------- *)
(* Two tasks at a time                                                     *)
(* ---------------------------------------------------------------------- *)

TaskUsers == {"u1", "u2"}

\* the activity texts the two tasks carry
TaskTexts == {TxtBroken, TxtUnhappy, TxtHappyOrder}

TaskRequest(u, text) == Request(u, StrActivity(text), None, NoDate)

\* what the AI model does with the sentiment prompt of a task
TaskSentiments ==
    IF ai_enabled
    THEN {AiRaises, AiText("none", TRUE, JsonObject(AiNegative)),
          AiText("plain", FALSE, JsonObject(AiPositive))}
    ELSE {AiRaises}

TaskEnv(s) == [DefaultEnv EXCEPT !.sent = s]

\* a task that has not started
TaskStart(req, e) == [pc |-> "start", request |-> req, env |-> e, result |-> NoCall]

\* process_task up to the return of analyze_request: the read of the previous
\* analysis, the classification and the write of the sentiment sample
TaskAnalyze(u) ==
    /\ threads[u].pc = "start"
    /\ files' = analyze_request(ai_enabled, ltm, files, hashseed, threads[u].request, now,
                                threads[u].env).files
    /\ threads' = [threads EXCEPT
                      ![u].pc = "analyzed",
                      ![u].result =
                          [analyze_request(ai_enabled, ltm, files, hashseed,
                                           threads[u].request, now, threads[u].env)
                              EXCEPT !.files = EmptyFiles]]
    /\ UNCHANGED <<ai_enabled, ltm, message_queue, now, hashseed, ret>>

\* process_task from the write of the last_analysis record to its return
TaskStore(u) ==
    /\ threads[u].pc = "analyzed"
    /\ files' = store_analysis([threads[u].result EXCEPT !.files = files], ltm,
                               threads[u].request.user_id, now, threads[u].env.io_last).files
    /\ threads' = [threads EXCEPT ![u].pc = "done"]
    /\ UNCHANGED <<ai_enabled, ltm, message_queue, now, hashseed, ret>>

InitTasks ==
    /\ ai_enabled \in BOOLEAN
    /\ ltm = "LTMFileStorage"
    /\ hashseed \in {0, 1}
    /\ now = 0
    /\ ret = NoCall
    /\ message_queue = <<>>
    /\ files = EmptyFiles
    /\ threads \in {[u \in TaskUsers |-> TaskStart(TaskRequest(u, x[u][1]), TaskEnv(x[u][2]))] :
                       x \in [TaskUsers -> TaskTexts \X TaskSentiments]}

NextTasks ==
    \/ \E u \in TaskUsers : TaskAnalyze(u)
    \/ \E u \in TaskUsers : TaskStore(u)

SpecTasks == InitTasks /\ [][NextTasks]_vars


(* ---------------------------------------------------------------------- *)
(* The outbox: send_message from several callers                           *)
(* ---------------------------------------------------------------------- *)

\* how many messages the callers send between them
MaxSends == 3

Senders == {"a", "b"}

\* the n-th message_obj of caller s
SentMessage(s, n) == [type |-> "completion_report", sender |-> s, seq |-> n]

\* a list that keeps its newest entry first
list_append_front(queue, entry) == <<entry>> \o queue

\* a list of one slot: the newest entry replaces what was there
list_append_bounded(queue, entry) == <<entry>>

\* self.message_queue.append(entry): one step of the interpreter
list_append(queue, entry) == Append(queue, entry)

\* what asyncio.get_event_loop() finds in send_message
LoopStates == {"running", "not_running", "no_loop"}

\* what becomes of the post to the supervisor
PostOutcomes == {"delivered", "refused", "timeout"}

\* a heartbeat whose exception is not caught
send_heartbeat_uncaught(post) ==
    IF post = "delivered" THEN Ok(None) ELSE Raise("ConnectError")

\* send_heartbeat: the post is inside try / except Exception
send_heartbeat(post) == Ok(None)

\* _send_to_supervisor_http, the coroutine send_message schedules: the post is
\* inside try / except Exception as well, and the queue is not touched
_send_to_supervisor_http(post) == Ok(None)

\* a caller of send_message: where it is, how many of its calls returned, the
\* exception of the last one ("" for none) and what became of its last post
SenderStart == [pc |-> "idle", sent |-> 0, exc |-> "", http |-> "none"]

\* the calls of caller s that have appended their entry
Appended(s) == threads[s].sent + (IF threads[s].pc = "queued" THEN 1 ELSE 0)

RECURSIVE SumAppended(_)
SumAppended(callers) ==
    IF callers = {}
    THEN 0
    ELSE LET s == CHOOSE x \in callers : TRUE
         IN Appended(s) + SumAppended(callers \ {s})

\* send_message up to the append
SendAppend(s) ==
    /\ threads[s].pc = "idle"
    /\ SumAppended(Senders) < MaxSends
    /\ message_queue' = list_append(message_queue,
                                    QueuedMessage("SupervisorRegistry",
                                                  SentMessage(s, threads[s].sent + 1), now))
    /\ threads' = [threads EXCEPT ![s].pc = "queued"]
    /\ UNCHANGED <<ai_enabled, ltm, files, now, hashseed, ret>>

\* send_message from the try block to its return: the coroutine is scheduled
\* when a loop is running, any exception of get_event_loop is swallowed
SendReturn(s) ==
    /\ threads[s].pc = "queued"
    /\ \E loop \in LoopStates :
           threads' = [threads EXCEPT ![s].pc = "idle",
                                      ![s].sent = @ + 1,
                                      ![s].http = IF loop = "running" THEN "pending" ELSE "none"]
    /\ UNCHANGED <<ai_enabled, ltm, files, message_queue, now, hashseed, ret>>

\* the scheduled coroutine runs
HttpPost(s) ==
    /\ threads[s].http = "pending"
    /\ \E post \in PostOutcomes :
           threads' = [threads EXCEPT ![s].http = post,
                                      ![s].exc = _send_to_supervisor_http(post).exc]
    /\ UNCHANGED <<ai_enabled, ltm, files, message_queue, now, hashseed, ret>>

\* requests that reach the /analyze handler
HandlerRequests ==
    {TaskRequest("u1", TxtBroken), Request("u1", IntActivity, None, NoDate),
     Request("u2", StrActivity(TxtHappyOrder), Some("Laptop"), DateOnly(0))}

\* the /analyze handler from process_task on: an exception of process_task or
\* of send_heartbeat becomes HTTPException(500)
analyze_user(result, heartbeat) ==
    IF result.exc # ""
    THEN Raise("HTTPException")
    ELSE IF heartbeat.exc # ""
    THEN Raise("HTTPException")
    ELSE Ok(result.val)

\* the first request to /analyze: task is what process_task returned to the handler
AnalyzeUser ==
    /\ ret.op = "none"
    /\ \E request \in HandlerRequests, post \in PostOutcomes :
           /\ files' = process_task(ai_enabled, ltm, files, hashseed, request, now,
                                    DefaultEnv).files
           /\ ret' = [op |-> "analyze_user", request |-> request, heartbeat |-> post,
                      task |-> process_task(ai_enabled, ltm, files, hashseed, request, now,
                                            DefaultEnv),
                      result |-> analyze_user(process_task(ai_enabled, ltm, files, hashseed,
                                                           request, now, DefaultEnv),
                                              send_heartbeat(post))]
           /\ UNCHANGED <<ai_enabled, ltm, message_queue, now, hashseed, threads>>

InitSenders ==
    /\ ai_enabled = FALSE
    /\ ltm \in {"None", "LTMFileStorage"}
    /\ hashseed = 0
    /\ now = 0
    /\ ret = NoCall
    /\ files = EmptyFiles
    /\ message_queue \in {<<>>, PriorQueue}
    /\ threads = [s \in Senders |-> SenderStart]

NextSenders ==
    \/ \E s \in Senders : SendAppend(s)
    \/ \E s \in Senders : SendReturn(s)
    \/ \E s \in Senders : HttpPost(s)
    \/ AnalyzeUser

SpecSenders == InitSenders /\ [][NextSenders]_vars


(* ---------------------------------------------------------------------- *)
(* The outbox: inspection and clearing                                     *)
(* ---------------------------------------------------------------------- *)

\* get_queued_messages: self.message_queue.copy(), a new list of the same
\* entries; shares says whether the list returned is the queue itself
get_queued_messages(queue) == [list |-> queue, shares |-> FALSE]

\* clear_message_queue: self.message_queue.clear(), and the function ends
\* without a return statement
clear_message_queue(queue) == [queue |-> <<>>, ret |-> None]

GetQueuedMessages ==
    /\ ret' = UnitCall("get_queued_messages", [queue |-> message_queue],
                       get_queued_messages(message_queue))
    /\ UNCHANGED <<ai_enabled, ltm, files, message_queue, now, hashseed, threads>>

\* the caller empties the list it got from get_queued_messages
ChangeReturnedList ==
    /\ ret.op = "get_queued_messages"
    /\ ret.result.list # <<>>
    /\ ret' = [ret EXCEPT !.op = "returned_list.clear", !.result.list = <<>>]
    /\ message_queue' = IF ret.result.shares THEN <<>> ELSE message_queue
    /\ UNCHANGED <<ai_enabled, ltm, files, now, hashseed, threads>>

ClearMessageQueue ==
    /\ message_queue' = clear_message_queue(message_queue).queue
    /\ ret' = UnitCall("clear_message_queue", [queue |-> message_queue],
                       clear_message_queue(message_queue).ret)
    /\ UNCHANGED <<ai_enabled, ltm, files, now, hashseed, threads>>

\* the caller of send_message next to the inspections
OutboxSenders == {"a"}

\* a direct call of analyze_request, write_to_ltm or read_from_ltm
OutboxAnalyzeRequest ==
    /\ ret.op = "none"
    /\ \E request \in HandlerRequests :
           /\ files' = analyze_request(ai_enabled, ltm, files, hashseed, request, now,
                                       DefaultEnv).files
           /\ ret' = UnitCall("analyze_request", [request |-> request],
                              analyze_request(ai_enabled, ltm, files, hashseed, request, now,
                                              DefaultEnv).exc)
    /\ UNCHANGED <<ai_enabled, ltm, message_queue, now, hashseed, threads>>

OutboxWriteToLtm ==
    /\ ret.op = "none"
    /\ \E io \in WriteOutcomes :
           FinishWrite(ConcurrentKey, PyInt(42),
                       write_to_ltm(ltm, files, ConcurrentKey, PyInt(42), now, io))

OutboxReadFromLtm ==
    /\ ret.op \in {"none", "write_to_ltm"}
    /\ ret' = UnitCall("read_from_ltm", [key |-> ConcurrentKey, io |-> "ok"],
                       read_from_ltm(ltm, files, ConcurrentKey, "ok"))
    /\ UNCHANGED <<ai_enabled, ltm, files, message_queue, now, hashseed, threads>>

NextOutbox ==
    \/ \E s \in OutboxSenders : SendAppend(s)
    \/ \E s \in OutboxSenders : SendReturn(s)
    \/ \E s \in OutboxSenders : HttpPost(s)
    \/ AnalyzeUser
    \/ GetQueuedMessages
    \/ ChangeReturnedList
    \/ ClearMessageQueue
    \/ OutboxAnalyzeRequest
    \/ OutboxWriteToLtm
    \/ OutboxReadFromLtm

SpecOutbox == InitSenders /\ [][NextOutbox]_vars


(* ---------------------------------------------------------------------- *)
(* Repeated analyses                                                       *)
(* ---------------------------------------------------------------------- *)

\* how many messages other callers queue between two analyses
MaxQueued == 1

SessionRequests ==
    {Request("u1", StrActivity(TxtSupportNegative), Some("Laptop"), NoDate),
     Request("u1", TupleActivity, None, NoDate)}

\* the environments of the calls: the answers of the AI model, the draw of the
\* templates and whether the storage directory can be read and written
SessionEnvs ==
    {[sent |-> s, ques |-> q, draw |-> d, io_read |-> r, io_sent |-> w, io_last |-> "ok"] :
        s \in TaskSentiments,
        q \in IF ai_enabled THEN {AiRaises, AiText("none", FALSE, JsonArray(AiQuestions))}
                            ELSE {AiRaises},
        d \in IF ai_enabled THEN {<<1, 2, 3>>} ELSE {<<1, 2, 3>>, <<2, 3, 1>>},
        r \in ReadOutcomes,
        w \in {"ok", "open_fail"}}

\* what the caller keeps of a call to compare it with the next
Kept(call) ==
    [request |-> call.request, exc |-> call.exc, value |-> call.value,
     classified |-> call.classified]

\* a call of analyze_request in environment e; env and earlier are kept for
\* the comparison: the environment of the call and, if it had the same
\* request, the call before it
SessionAnalyze ==
    \E request \in SessionRequests :
        \E e \in SessionEnvs :
            /\ files' = analyze_request(ai_enabled, ltm, files, hashseed, request, now, e).files
            /\ ret' = Returned("analyze_request", request,
                               analyze_request(ai_enabled, ltm, files, hashseed, request, now, e)
                                   @@ [stored |-> FALSE])
                          @@ [env |-> e,
                              earlier |-> IF ret.op = "none" \/ ret.request # request
                                          THEN None
                                          ELSE Some(Kept(ret))]
            /\ UNCHANGED <<ai_enabled, ltm, message_queue, now, hashseed, threads>>

\* between two analyses the storage directory changes: records are added by
\* tasks, deleted, or left half-written
StoreChanges ==
    /\ files' \in {EmptyFiles, PriorFiles(hashseed),
                   [k \in {last_analysis_key("u1")} |-> PartialFile]}
    /\ files' # files
    /\ UNCHANGED <<ai_enabled, ltm, message_queue, now, hashseed, ret, threads>>

\* between two analyses a message is queued
QueueChanges ==
    /\ Len(message_queue) < MaxQueued
    /\ message_queue' = list_append(message_queue,
                                    QueuedMessage("SupervisorRegistry",
                                                  [type |-> "completion_report"], now))
    /\ UNCHANGED <<ai_enabled, ltm, files, now, hashseed, ret, threads>>

InitSession ==
    /\ ai_enabled \in BOOLEAN
    /\ ltm \in {"None", "LTMFileStorage"}
    /\ hashseed = 0
    /\ now = 0
    /\ ret = NoCall
    /\ threads = NoThreads
    /\ files = EmptyFiles
    /\ message_queue = <<>>

NextSession == SessionAnalyze \/ StoreChanges \/ QueueChanges

SpecSession == InitSession /\ [][NextSession]_vars


(* ---------------------------------------------------------------------- *)
(* The storage used by one caller                                          *)
(* ---------------------------------------------------------------------- *)

\* a Python set
PySet(items) == [set |-> items]

\* whether json.dump writes the value or raises TypeError
RECURSIVE json_serializable(_)
json_serializable(v) ==
    CASE "set" \in DOMAIN v -> FALSE
      [] "list" \in DOMAIN v -> \A i \in DOMAIN v.list : json_serializable(v.list[i])
      [] "tuple" \in DOMAIN v -> \A i \in DOMAIN v.tuple : json_serializable(v.tuple[i])
      [] "dict" \in DOMAIN v -> \A k \in DOMAIN v.dict : json_serializable(v.dict[k])
      [] OTHER -> TRUE

\* save_json on a directory that can be written: the file is opened, which
\* truncates it, and json.dump writes the document or raises half-way
save_json(value) == IF json_serializable(value) THEN "ok" ELSE "dump_fail"

\* LTMFileStorage.delete: os.remove if the file exists
LTMFileStorage_delete(store, key) ==
    IF key \in DOMAIN store
    THEN [ret |-> TRUE, files |-> [k \in DOMAIN store \ {key} |-> store[k]]]
    ELSE [ret |-> FALSE, files |-> store]

\* the file of a key, and f.replace('.json', '') on a file name; names are
\* sequences of pieces and '.json' is a piece
file_name(key) == Append(key, ".json")

replace_json(name) == SelectSeq(name, LAMBDA piece : piece # ".json")

\* the orders in which os.listdir may give the files of the keys
Listings(keys) ==
    {order \in [1..Cardinality(keys) -> keys] :
        \A i, j \in 1..Cardinality(keys) : order[i] = order[j] => i = j}

\* LTMFileStorage.list_keys for the listing order of the directory
LTMFileStorage_list_keys(order) ==
    [i \in DOMAIN order |-> replace_json(file_name(order[i]))]

StoreKeys == {<<"test_key">>, <<"last_analysis_", "u1">>, <<"export", ".json">>}

StoreValues == {PyInt(42), PyDict([data |-> PyStr("test_value")]), PySet(<<PyInt(1)>>)}

StoreWrite ==
    \E key \in StoreKeys, value \in StoreValues :
        /\ files' = LTMFileStorage_write(files, key, value, now, save_json(value)).files
        /\ ret' = UnitCall("LTMFileStorage.write", [key |-> key, value |-> value],
                           LTMFileStorage_write(files, key, value, now, save_json(value)).ret)
        /\ UNCHANGED <<ai_enabled, ltm, message_queue, now, hashseed, threads>>

StoreRead ==
    \E key \in StoreKeys :
        /\ ret' = UnitCall("LTMFileStorage.read", [key |-> key],
                           LTMFileStorage_read(files, key, "ok"))
        /\ UNCHANGED <<ai_enabled, ltm, files, message_queue, now, hashseed, threads>>

StoreDelete ==
    \E key \in StoreKeys :
        /\ files' = LTMFileStorage_delete(files, key).files
        /\ ret' = UnitCall("LTMFileStorage.delete", [key |-> key],
                           LTMFileStorage_delete(files, key).ret)
        /\ UNCHANGED <<ai_enabled, ltm, message_queue, now, hashseed, threads>>

StoreListKeys ==
    \E order \in Listings(DOMAIN files) :
        /\ ret' = UnitCall("LTMFileStorage.list_keys", [none |-> TRUE],
                           LTMFileStorage_list_keys(order))
        /\ UNCHANGED <<ai_enabled, ltm, files, message_queue, now, hashseed, threads>>

InitStore ==
    /\ ai_enabled = FALSE
    /\ ltm = "LTMFileStorage"
    /\ hashseed = 0
    /\ now = 0
    /\ ret = NoCall
    /\ threads = NoThreads
    /\ files = EmptyFiles
    /\ message_queue = <<>>

NextStore == StoreWrite \/ StoreRead \/ StoreDelete \/ StoreListKeys

SpecStore == InitStore /\ [][NextStore]_vars


(* ---------------------------------------------------------------------- *)
(* Waiting for the AI model and the supervisor                             *)
(* ---------------------------------------------------------------------- *)

LiveRequests ==
    {TaskRequest("u1", TxtBroken), TaskRequest("u1", TxtHappyOrder),
     Request("u1", StrActivity(TxtBroken), None, DateOnly(0)),
     Request("u1", IntActivity, None, NoDate)}

\* the /analyze handler at a point of its run: env collects the answers the
\* call has got so far
LiveAt(pc, request, e) == [pc |-> pc, request |-> request, env |-> e, heartbeat |-> "none"]

\* the handler is in process_task
InProcessTask ==
    threads.pc \in {"analyzing", "sentiment_wait", "classified", "questions_wait", "decided"}

\* a request reaches the handler and process_task is called
LiveCall ==
    /\ threads.pc = "idle"
    /\ \E request \in LiveRequests : threads' = LiveAt("analyzing", request, DefaultEnv)
    /\ UNCHANGED <<ai_enabled, ltm, files, message_queue, now, hashseed, ret>>

\* analyze_request up to the classification: with the AI enabled
\* analyze_sentiment_ai calls self.model.generate_content(prompt), with no
\* timeout, and waits for it
LiveClassify ==
    /\ threads.pc = "analyzing"
    /\ threads' = [threads EXCEPT
                      !.pc = IF ai_enabled
                                /\ _should_send_survey(threads.request.last_survey_date, now)
                             THEN "sentiment_wait"
                             ELSE "classified"]
    /\ UNCHANGED <<ai_enabled, ltm, files, message_queue, now, hashseed, ret>>

\* the AI model answers the sentiment prompt, or its client raises
AiAnswersSentiment ==
    /\ threads.pc = "sentiment_wait"
    /\ \E s \in TaskSentiments : threads' = [threads EXCEPT !.pc = "classified", !.env.sent = s]
    /\ UNCHANGED <<ai_enabled, ltm, files, message_queue, now, hashseed, ret>>

\* the decision: when it triggers with the AI enabled,
\* generate_survey_questions_ai calls generate_content and waits for it
LiveDecide ==
    /\ threads.pc = "classified"
    /\ threads' = [threads EXCEPT
                      !.pc = IF ai_enabled
                                /\ analyze_request(ai_enabled, ltm, files, hashseed,
                                                   threads.request, now, threads.env).generated > 0
                             THEN "questions_wait"
                             ELSE "decided"]
    /\ UNCHANGED <<ai_enabled, ltm, files, message_queue, now, hashseed, ret>>

\* the AI model answers the question prompt, or its client raises
AiAnswersQuestions ==
    /\ threads.pc = "questions_wait"
    /\ \E q \in {AiRaises, AiText("none", FALSE, JsonArray(AiQuestions))} :
           threads' = [threads EXCEPT !.pc = "decided", !.env.ques = q]
    /\ UNCHANGED <<ai_enabled, ltm, files, message_queue, now, hashseed, ret>>

\* process_task stores the analysis and returns or raises; the handler goes
\* on to send_heartbeat
LiveReturn ==
    /\ threads.pc = "decided"
    /\ files' = process_task(ai_enabled, ltm, files, hashseed, threads.request, now,
                             threads.env).files
    /\ ret' = Returned("process_task", threads.request,
                       process_task(ai_enabled, ltm, files, hashseed, threads.request, now,
                                    threads.env))
    /\ threads' = [threads EXCEPT !.pc = "heartbeat_wait"]
    /\ UNCHANGED <<ai_enabled, ltm, message_queue, now, hashseed>>

\* the supervisor answers or refuses the heartbeat
SupervisorAnswers ==
    /\ threads.pc = "heartbeat_wait"
    /\ \E post \in {"delivered", "refused"} :
           /\ send_heartbeat(post).exc = ""
           /\ threads' = [threads EXCEPT !.pc = "idle", !.heartbeat = post]
    /\ UNCHANGED <<ai_enabled, ltm, files, message_queue, now, hashseed, ret>>

\* the heartbeat post gives up after timeout=5.0
HeartbeatTimeout ==
    /\ threads.pc = "heartbeat_wait"
    /\ send_heartbeat("timeout").exc = ""
    /\ threads' = [threads EXCEPT !.pc = "idle", !.heartbeat = "timeout"]
    /\ UNCHANGED <<ai_enabled, ltm, files, message_queue, now, hashseed, ret>>

InitLive ==
    /\ ai_enabled \in BOOLEAN
    /\ ltm \in {"None", "LTMFileStorage"}
    /\ hashseed = 0
    /\ now = 0
    /\ ret = NoCall
    /\ threads = LiveAt("idle", NoRequest, DefaultEnv)
    /\ files = EmptyFiles
    /\ message_queue = <<>>

NextLive ==
    \/ LiveCall
    \/ LiveClassify
    \/ AiAnswersSentiment
    \/ LiveDecide
    \/ AiAnswersQuestions
    \/ LiveReturn
    \/ SupervisorAnswers
    \/ HeartbeatTimeout

\* the steps of the handler's own code are taken, and so is the timeout it
\* passes to the heartbeat post; nothing makes the AI model or the supervisor
\* answer
LiveFairness ==
    /\ WF_vars(LiveClassify)
    /\ WF_vars(LiveDecide)
    /\ WF_vars(LiveReturn)
    /\ WF_vars(HeartbeatTimeout)

SpecLive == InitLive /\ [][NextLive]_vars /\ LiveFairness


(* ---------------------------------------------------------------------- *)
(* Properties                                                              *)
(* ---------------------------------------------------------------------- *)

\* a call has been made and returned a decision
Decided == ret.op # "none" /\ ret.exc = ""

\* the decision triggers a survey of this type and priority
Triggers(survey_type, priority) ==
    /\ Decided
    /\ ret.value[1].survey_trigger
    /\ ret.value[1].survey_type = survey_type
    /\ ret.value[1].priority = priority

\* the decision triggers no survey
NoSurvey == Decided /\ ~ret.value[1].survey_trigger

\* the call got as far as a classification, and this is its sentiment
Classified(sentiment) ==
    /\ ret.op # "none"
    /\ ret.classified # None
    /\ ret.classified[1].sentiment = sentiment

\* last_purchase is a non-empty string
HasPurchase == ret.request.last_purchase \notin {None, Some("")}

\* the clock when the last call was made
called_at == now - 1

\* last_survey_date names a moment, and the whole days from it to the call
IsMoment(d) == d.form \in {"date", "datetime", "offset"}

WholeDaysSince(d, clock) == (clock - ((d.day * TicksPerDay) + d.tick)) \div TicksPerDay

\* no cooldown is active for the request
NoCooldown ==
    IsMoment(ret.request.last_survey_date) =>
        WholeDaysSince(ret.request.last_survey_date, called_at) >= MIN_DAYS_BETWEEN_SURVEYS

\* the letters of "support", capital
SUPPORT == <<"S", "U", "P", "P", "O", "R", "T">>

\* text contains "support" in any letter case
ContainsSupport(text) ==
    \E i \in 1..Len(text) :
        /\ i + Len(SUPPORT) - 1 <= Len(text)
        /\ \A j \in 1..Len(SUPPORT) : text[i + j - 1] \in {SUPPORT[j], SupportWord[j]}

\* the files of the last_analysis records
LastAnalysisFiles(store) ==
    [k \in {x \in DOMAIN store : x[1] = "last_analysis_"} |-> store[k]]

\* C1: every decision returned by analyze_request or process_task (here: for
\* a str recent_activity) has, when survey_trigger is true, a non-empty list
\* of questions and a survey_type and a priority, and when survey_trigger is
\* false none of the three.
C1_DecisionShape ==
    (Decided /\ ret.request.recent_activity.type = "str") =>
        IF ret.value[1].survey_trigger
        THEN /\ {"survey_type", "priority", "questions"} \subseteq DOMAIN ret.value[1]
             /\ ret.value[1].questions # JsonArray(<<>>)
        ELSE {"survey_type", "priority", "questions"} \cap DOMAIN ret.value[1] = {}

\* C2: a request whose last_survey_date lies fewer than
\* MIN_DAYS_BETWEEN_SURVEYS whole days before the call is answered (here: for
\* a str recent_activity) with survey_trigger false and the reason "Survey
\* sent too recently".
C2_CooldownBlocks ==
    (ret.op # "none" /\ ~NoCooldown /\ ret.request.recent_activity.type = "str") =>
        (NoSurvey /\ ret.value[1].reason = <<"Survey sent too recently">>)

\* C3: when the classified sentiment is negative and last_purchase is
\* non-empty, the decision is a Product Experience survey of high priority,
\* also when recent_activity mentions support.
C3_PurchaseRuleFirst ==
    (Classified("negative") /\ HasPurchase) => Triggers("Product Experience", "high")

C3_Witness ==
    /\ Classified("negative")
    /\ HasPurchase
    /\ ret.request.recent_activity = StrActivity(TxtSupportNegative)
    /\ ContainsSupport(ret.request.recent_activity.val)
    /\ Triggers("Product Experience", "high")

\* C4: when the classified sentiment is negative and last_purchase is empty or
\* absent, the decision for a str recent_activity is a Support Quality survey
\* of high priority if the text contains "support" in any letter case, and an
\* Engagement Check survey of medium priority otherwise.
C4_SupportOrEngagement ==
    (Classified("negative") /\ ~HasPurchase /\ ret.request.recent_activity.type = "str") =>
        IF ContainsSupport(ret.request.recent_activity.val)
        THEN Triggers("Support Quality", "high")
        ELSE Triggers("Engagement Check", "medium")

C4_Witness ==
    /\ Classified("negative")
    /\ ~HasPurchase
    /\ ret.request.recent_activity = StrActivity(TxtUpperSupport)
    /\ ~IsSubstring(SupportWord, ret.request.recent_activity.val)
    /\ Triggers("Support Quality", "high")

C6_PositivePurchaseTriggers ==
    (/\ ret.op # "none"
     /\ ret.request.recent_activity = StrActivity(TxtHappyOrder)
     /\ HasPurchase
     /\ NoCooldown) =>
        (/\ Decided
         /\ ret.value[1].survey_trigger
         /\ ret.value[1].priority \in {"medium", "high"}
         /\ ret.value[1].questions # JsonArray(<<>>))

\* C7: a request with the neutral text "Logged in and viewed dashboard", an
\* empty last_purchase and no last_survey_date yields survey_trigger true
\* with priority low.
C7_NeutralTriggersLow ==
    (/\ ret.op # "none"
     /\ ret.request.recent_activity = StrActivity(TxtDashboard)
     /\ ret.request.last_purchase = Some("")
     /\ ret.request.last_survey_date = NoDate) =>
        (/\ Decided
         /\ ret.value[1].survey_trigger
         /\ ret.value[1].priority = "low")

\* C8: after process_task returned a decision for a non-empty user_id and the
\* long-term memory took the write, reading last_analysis_<user_id> gives a
\* record whose result is that decision, also when an earlier record was there.
C8_LastAnalysisIsDecision ==
    (ret.op = "process_task" /\ Decided /\ ret.request.user_id # "" /\ ltm # "None"
         /\ ret.stored) =>
        /\ read_from_ltm(ltm, files, <<"last_analysis_", ret.request.user_id>>, "ok") # None
        /\ read_from_ltm(ltm, files, <<"last_analysis_", ret.request.user_id>>, "ok")[1].result
               = ret.value[1]

C8_Witness ==
    /\ ret.op = "process_task"
    /\ NoSurvey
    /\ ret.value[1].reason = <<"Survey sent too recently">>
    /\ ret.stored
    /\ ret.previous_analysis # None
    /\ ret.previous_analysis[1].result.survey_trigger
    /\ read_from_ltm(ltm, files, <<"last_analysis_", ret.request.user_id>>, "ok")[1].result
           = ret.value[1]

\* C9: for a str recent_activity process_task returns a decision and does not
\* raise, whether the AI is disabled, raises or answers something else than
\* the expected JSON, and whether the long-term memory is absent or failing.
C9_DegradedNeverRaises ==
    (ret.op = "process_task" /\ ret.request.recent_activity.type = "str") =>
        (ret.exc = "" /\ ret.value # None)

C9_Witness ==
    /\ ret.op = "process_task"
    /\ ret.request.recent_activity.type = "str"
    /\ ret.request.user_id # ""
    /\ ai_enabled
    /\ ltm # "None"
    /\ ret.classified # None
    /\ ret.classified[1].reason = "Keyword-based analysis (fallback mode)"
    /\ ~ret.stored
    /\ LastAnalysisFiles(files) # LastAnalysisFiles(EmptyFiles)
    /\ Decided

\* C10: a call in which classification, rule evaluation or question generation
\* raises (as they do for a recent_activity that is an int or None once the
\* cooldown gate has passed) hands the exception to its caller and returns no
\* decision, and that call leaves the last_analysis records and the message
\* queue as they were.
C10_RaisedLeavesNoTrace ==
    [][(ret'.op # "none") =>
         /\ (/\ ret'.request.recent_activity.type \in {"int", "NoneType"}
             /\ _should_send_survey(ret'.request.last_survey_date, now))
                => ret'.exc # ""
         /\ ret'.exc # "" =>
                /\ ret'.value = None
                /\ LastAnalysisFiles(files') = LastAnalysisFiles(files)
                /\ message_queue' = message_queue]_vars

C10_Witness ==
    /\ ret.op = "process_task"
    /\ ret.exc = "AttributeError"
    /\ ret.classified # None
    /\ ret.request.user_id # ""
    /\ ltm # "None"
    /\ LastAnalysisFiles(files) # LastAnalysisFiles(EmptyFiles)
    /\ message_queue # <<>>


(* ---------------------------------------------------------------------- *)
(* Properties of the single functions                                      *)
(* ---------------------------------------------------------------------- *)

\* C11: for a last_survey_date that parses as a date or date-time (date only,
\* with a time of day, or with a UTC offset) _should_send_survey returns true
\* exactly when the whole days from it to now are at least
\* MIN_DAYS_BETWEEN_SURVEYS.
C11_GateCountsWholeDays ==
    (ret.op = "_should_send_survey" /\ IsMoment(ret.args.last_survey_date)) =>
        (ret.result <=>
            WholeDaysSince(ret.args.last_survey_date, ret.args.clock)
                >= MIN_DAYS_BETWEEN_SURVEYS)

\* C12: _should_send_survey returns true when last_survey_date is None or the
\* empty string and when it is a string that does not parse as a date.
C12_GateFailsOpen ==
    (ret.op = "_should_send_survey" /\ ~IsMoment(ret.args.last_survey_date)) =>
        ret.result = TRUE

C12_Witness ==
    /\ ret.op = "_should_send_survey"
    /\ ret.args.last_survey_date = GarbageDate
    /\ ret.result = TRUE

\* kw occurs in text when letter case is ignored (kw is in lower case)
Found(kw, text) ==
    \E i \in 1..Len(text) :
        /\ i + Len(kw) - 1 <= Len(text)
        /\ \A j \in 1..Len(kw) : LowerChar(text[i + j - 1]) = kw[j]

\* how many of the keywords occur in text
FoundCount(keywords, text) == Cardinality({i \in DOMAIN keywords : Found(keywords[i], text)})

\* the fallback answer for n negative and p positive keywords
FallbackAnswer(n, p) ==
    [sentiment |-> IF n > p THEN "negative" ELSE IF p > n THEN "positive" ELSE "neutral",
     confidence |-> IF n > p THEN IF 60 + (10 * n) < 95 THEN 60 + (10 * n) ELSE 95
                    ELSE IF p > n THEN IF 60 + (10 * p) < 95 THEN 60 + (10 * p) ELSE 95
                    ELSE 50,
     reason |-> "Keyword-based analysis (fallback mode)"]

\* C13: with n and p the numbers of negative and positive keywords found in the
\* lower-cased text, _fallback_sentiment returns negative with confidence
\* min(60+10n, 95) when n > p, positive with confidence min(60+10p, 95) when
\* p > n and neutral with confidence 50 when n = p; its reason names fallback
\* mode, and the confidence is 50, 70, 80, 90 or 95.
C13_FallbackFormula ==
    (ret.op = "_fallback_sentiment") =>
        /\ ret.result = Ok(FallbackAnswer(FoundCount(negative_keywords, ret.args.text),
                                          FoundCount(positive_keywords, ret.args.text)))
        /\ ret.result.val.confidence \in {50, 70, 80, 90, 95}

C13_Witness ==
    /\ ret.op = "_fallback_sentiment"
    /\ FoundCount(negative_keywords, ret.args.text) = 4
    /\ FoundCount(positive_keywords, ret.args.text) = 2
    /\ ret.result.val.sentiment = "negative"
    /\ ret.result.val.confidence = 95

\* C14: for every str text and every behaviour of the AI model
\* analyze_sentiment_ai returns a result whose sentiment is positive, negative
\* or neutral and whose confidence is an integer in 0..100, and when the AI
\* call raises or its answer is not JSON the result is _fallback_sentiment's.
C14_SentimentWellFormed ==
    (ret.op = "analyze_sentiment_ai") =>
        /\ ret.result.exc = ""
        /\ ret.result.val.sentiment \in {"positive", "negative", "neutral"}
        /\ ret.result.val.confidence \in 0..100
        /\ (ret.args.response = AiRaises
                \/ extract_payload(ret.args.response, FALSE) = JsonInvalid)
               => ret.result = Ok(FallbackAnswer(
                                     FoundCount(negative_keywords, ret.args.text),
                                     FoundCount(positive_keywords, ret.args.text)))

\* C15: for every survey type, context and count and every behaviour of the AI
\* model generate_survey_questions_ai returns a list of text strings, and when
\* the AI is disabled, raises or answers something json.loads rejects the list
\* is _fallback_questions' for the same arguments.
C15_QuestionsAreAList ==
    (ret.op = "generate_survey_questions_ai") =>
        /\ ret.result.j = "array"
        /\ (~ai_enabled \/ ret.args.response = AiRaises
                \/ extract_payload(ret.args.response, TRUE) = JsonInvalid)
               => ret.result.items
                      = _fallback_questions(ret.args.survey_type, ret.args.context,
                                            ret.args.num_questions, ret.args.draw)

\* the pool of a survey type for a context
Pool(survey_type, context) ==
    questions_map(survey_type,
                  IF "last_purchase" \in DOMAIN context
                  THEN context.last_purchase
                  ELSE Some("product"))

\* the members of a list
Members(list) == {list[i] : i \in DOMAIN list}

\* C16: _fallback_questions returns a duplicate-free list drawn from the pool
\* of the survey type (the generic pool for an unknown type), of length count
\* when count is smaller than the pool and of the pool's length otherwise.
C16_FallbackSample ==
    (ret.op = "_fallback_questions") =>
        /\ Members(ret.result)
               \subseteq Members(Pool(ret.args.survey_type, ret.args.context))
        /\ Cardinality(Members(ret.result)) = Len(ret.result)
        /\ Len(ret.result)
               = IF ret.args.num_questions < Len(Pool(ret.args.survey_type, ret.args.context))
                 THEN ret.args.num_questions
                 ELSE Len(Pool(ret.args.survey_type, ret.args.context))

C16_Witness ==
    /\ ret.op = "_fallback_questions"
    /\ ret.args.survey_type = "Loyalty"
    /\ ret.args.num_questions = 6
    /\ Len(ret.result) = 5
    /\ <<"How satisfied are you overall?">> \in Members(ret.result)

\* C17: in the fallback questions the last-purchase field is the context's
\* last_purchase when that is present and non-empty, and "product" when it is
\* missing from the context, None or the empty string.
C17_PurchaseFieldDefault ==
    (ret.op = "_fallback_questions" /\ ret.args.survey_type = "Product Experience") =>
        \A i \in DOMAIN ret.result :
            Len(ret.result[i]) = 3 =>
                ret.result[i][2]
                    = IF "last_purchase" \in DOMAIN ret.args.context
                           /\ ret.args.context.last_purchase \notin {None, Some("")}
                      THEN ret.args.context.last_purchase[1]
                      ELSE "product"

\* C18: a successful write of a value json represents, followed by a read of
\* the same key, gives back a value equal to the one written.
C18_RoundTrip ==
    [][(/\ ret.op = "write_to_ltm"
        /\ ret.result = TRUE
        /\ ret.args.value \in JsonRepresentable
        /\ ret'.op = "read_from_ltm"
        /\ ret'.args.key = ret.args.key
        /\ ret'.args.io = "ok")
           => ret'.result = Some(ret.args.value)]_(ret.op)

C18_Witness ==
    /\ ret.op = "read_from_ltm"
    /\ ret.args.key = <<"last_analysis_", "u1">>
    /\ ret.result = Some(PyDict([items |-> PyList(<<PyDict([n |-> PyInt(1)]), PyList(<<>>)>>)]))
    /\ files[ret.args.key].data.value = ret.result[1]

\* C19: when the long-term memory could not be initialised every write_to_ltm
\* returns False, every read_from_ltm returns None, and analyze_request,
\* process_task and get_status complete.
C19_DisabledLtm ==
    (ltm = "None") =>
        /\ ret.op = "write_to_ltm" => (ret.result = FALSE /\ files = EmptyFiles)
        /\ ret.op = "read_from_ltm" => ret.result = None
        /\ ret.op = "get_status" => (ret.result.exc = "" /\ ret.result.val.ltm_keys = 0)
        /\ ret.op \in {"process_task", "analyze_request"} =>
               (ret.exc = "" /\ ret.value # None /\ ~ret.stored
                    /\ ret.previous_analysis = None /\ files = EmptyFiles)

C19_Witness ==
    /\ ltm = "None"
    /\ ret.op = "get_status"
    /\ ret.result.exc = ""
    /\ ret.result.val.status = "healthy"
    /\ ret.result.val.ltm_keys = 0

\* C20: a read that runs while writers overwrite a key returns the value the
\* key had or a value being written, never None; and once the writers are done
\* the file holds the document of one of them.
C20_AtomicWrites ==
    /\ ret.op = "LTMFileStorage.read" =>
           ret.result \in {Some(OldValue)} \cup {Some(threads[w].value) : w \in Writers}
    /\ (\A w \in Writers : threads[w].pc = "done") =>
           \E w \in Writers :
               parsed_file(files[ConcurrentKey])
                   = JsonFile(StoredDocument(threads[w].value, now))

(* ---------------------------------------------------------------------- *)
(* Properties of the tasks, the outbox and the store                       *)
(* ---------------------------------------------------------------------- *)

\* what process_task for user u leaves on disk when it runs alone
AloneFiles(u) ==
    process_task(ai_enabled, ltm, EmptyFiles, hashseed, threads[u].request, now,
                 threads[u].env).files

\* C21: two process_task calls for different users write disjoint keys, and
\* after both have finished each user's records are those of its call run
\* alone.
C21_TasksDoNotInterfere ==
    (\A u \in TaskUsers : threads[u].pc = "done") =>
        /\ DOMAIN AloneFiles("u1") \cap DOMAIN AloneFiles("u2") = {}
        /\ \A u \in TaskUsers :
               \A k \in DOMAIN AloneFiles(u) : files[k] = AloneFiles(u)[k]

\* the entries of the queue that carry a message of caller s, in queue order
EntriesOf(s) ==
    SelectSeq(message_queue,
              LAMBDA entry : "sender" \in DOMAIN entry.message /\ entry.message.sender = s)

\* the entries that were queued before the callers started
EarlierEntries == SelectSeq(message_queue, LAMBDA entry : "sender" \notin DOMAIN entry.message)

\* C22: after any interleaving of the callers' send_message calls the queue
\* holds one new entry for each call, with the recipient and message of the
\* call, and the entries of one caller are in the order of its calls.
C22_NoLostMessages ==
    /\ Len(message_queue) = Len(EarlierEntries) + SumAppended(Senders)
    /\ \A s \in Senders :
           EntriesOf(s) = [n \in 1..Appended(s) |->
                              QueuedMessage("SupervisorRegistry", SentMessage(s, n), now)]

C22_Witness ==
    /\ \A s \in Senders : threads[s].pc = "idle"
    /\ threads["b"].sent = 2
    /\ Len(message_queue) = 4
    /\ message_queue[1] = PriorQueue[1]
    /\ message_queue[2].message = SentMessage("b", 1)
    /\ message_queue[3].message = SentMessage("a", 1)
    /\ message_queue[4].message = SentMessage("b", 2)

\* C23: get_queued_messages returns all queued entries in insertion order and
\* leaves the queue unchanged, changes to the returned list do not alter the
\* queue, and clear_message_queue returns all queued entries and leaves the
\* queue empty.
C23_PeekAndDrain ==
    [][/\ (ret'.op = "get_queued_messages" /\ threads' = threads) =>
              (ret'.result.list = message_queue /\ message_queue' = message_queue)
       /\ (ret.op = "get_queued_messages" /\ ret'.op = "returned_list.clear") =>
              message_queue' = message_queue
       /\ (ret'.op = "clear_message_queue" /\ threads' = threads) =>
              (ret'.result = message_queue /\ message_queue' = <<>>)]_<<ret.op, message_queue>>

\* C24: whatever becomes of the posts to the supervisor, send_message has
\* queued its entry and returned normally, and the /analyze handler answers
\* what process_task returned, as it does when the heartbeat is delivered.
C24_SupervisorDoesNotMatter ==
    /\ \A s \in Senders :
           /\ threads[s].exc = ""
           /\ Len(EntriesOf(s)) = Appended(s)
    /\ ret.op = "analyze_user" =>
           ret.result = (IF ret.task.exc = "" THEN Ok(ret.task.val) ELSE Raise("HTTPException"))

C24_Witness ==
    /\ threads["a"].http = "timeout"
    /\ threads["b"].http = "refused"
    /\ Len(EntriesOf("a")) = 1
    /\ ret.op = "analyze_user"
    /\ ret.heartbeat = "timeout"
    /\ ret.result.exc = ""
    /\ ret.result.val.survey_trigger = TRUE

\* caller s passes the append of send_message in this step
Appends(s) == threads[s].pc = "idle" /\ threads'[s].pc = "queued"

\* C30: the queue changes only when clear_message_queue empties it or when a
\* send_message call adds its one entry at the end, earlier entries staying
\* in place; every send_message call does add its entry, and the HTTP post,
\* process_task, analyze_request and the memory operations leave the queue
\* as it is.
C30_OutboxAppendOnly ==
    [][\/ /\ ret'.op = "clear_message_queue"
          /\ threads' = threads
          /\ message_queue' = <<>>
       \/ \E s \in Senders :
              /\ Appends(s)
              /\ message_queue'
                     = Append(message_queue,
                              QueuedMessage("SupervisorRegistry",
                                            SentMessage(s, threads[s].sent + 1), now))
       \/ /\ message_queue' = message_queue
          /\ \A s \in Senders : ~Appends(s)]_<<message_queue, threads>>

C30_Witness ==
    /\ threads["a"].http = "delivered"
    /\ threads["a"].sent = 2
    /\ ret.op = "analyze_user"
    /\ Len(message_queue) = 3
    /\ message_queue[3].message = SentMessage("a", 2)

\* the cooldown gate blocked the call
Blocked == Decided /\ ret.value[1].reason = <<"Survey sent too recently">>

\* the files before the first call
FilesAtStart == {EmptyFiles, PriorFiles(hashseed)}

\* the key of the sentiment sample of the last call
SampleKey == sentiment_key(hashseed, ret.request.recent_activity)

\* the sentiment sample of the last call is on disk
SampleWritten ==
    /\ SampleKey \in DOMAIN files
    /\ files[SampleKey].state = "json"
    /\ files[SampleKey].data.stored_at = get_timestamp(called_at)
    /\ files[SampleKey].data.value.sentiment = ret.classified[1].sentiment

\* the files are those at the start, but for the keys in changed
OnlyChanged(changed) ==
    \E start \in FilesAtStart :
        /\ DOMAIN start \subseteq DOMAIN files
        /\ \A k \in DOMAIN files \ changed : k \in DOMAIN start /\ files[k] = start[k]

Verdict(value) ==
    IF value = None
    THEN None
    ELSE Some([f \in DOMAIN value[1] \cap {"survey_trigger", "survey_type", "priority"} |->
                  value[1][f]])

\* sentiment and confidence of a classification
Measured(classified) ==
    IF classified = None
    THEN None
    ELSE Some([sentiment |-> classified[1].sentiment, confidence |-> classified[1].confidence])

\* C25: with the AI disabled two analyze_request calls with the same request
\* at the same clock value give the same sentiment and confidence and the same
\* survey_trigger, survey_type and priority, whatever was stored or queued
\* between them.
C25_Deterministic ==
    (ret.op = "analyze_request" /\ ~ai_enabled /\ ret.earlier # None) =>
        (ret.earlier[1].request = ret.request =>
            /\ ret.earlier[1].exc = ret.exc
            /\ Measured(ret.earlier[1].classified) = Measured(ret.classified)
            /\ Verdict(ret.earlier[1].value) = Verdict(ret.value))

C25_Witness ==
    /\ ret.op = "analyze_request"
    /\ ~ai_enabled
    /\ ret.earlier # None
    /\ ret.earlier[1].request = ret.request
    /\ ret.previous_analysis # None
    /\ Len(message_queue) = MaxQueued
    /\ ret.value # None
    /\ ret.value[1].survey_trigger
    /\ ret.earlier[1].value[1].questions # ret.value[1].questions

\* the same call made by an agent without LTM
WithoutStore ==
    analyze_request(ai_enabled, "None", EmptyFiles, hashseed, ret.request, now,
                    [ret.env EXCEPT !.io_read = "ok", !.io_sent = "ok"])

\* C28: for the same request, clock and AI outputs analyze_request returns the
\* same decision (survey_trigger, survey_type, priority, reason, questions)
\* or raises the same error for any two LTM states: whatever is stored under
\* last_analysis_<user_id>, with LTM enabled or disabled, with writes that
\* succeed or fail.
C28_StoreDoesNotDecide ==
    ret.op = "analyze_request" =>
        /\ ret.exc = WithoutStore.exc
        /\ ret.classified = WithoutStore.classified
        /\ ret.exc = "" => ret.value = Some(WithoutStore.val)

C28_Witness ==
    /\ ret.op = "analyze_request"
    /\ ltm # "None"
    /\ ret.previous_analysis # None
    /\ ret.env.io_sent = "open_fail"
    /\ ret.value # None
    /\ ret.value[1].survey_trigger
    /\ ret.earlier # None
    /\ ret.earlier[1].value = ret.value

\* the value the storage holds for a key: what read returns for it
Lookup(store, key) == LTMFileStorage_read(store, key, "ok")

\* the keys the storage holds a value for
Present(store) == {key \in StoreKeys : Lookup(store, key) # None}

\* C27: used by one caller the LTM store is a map from keys to values: a
\* write to k makes read(k) return the written value (or, refused, leaves the
\* map as it was) and leaves the other keys alone; a delete of k returns true
\* exactly when k was present, makes k absent and leaves the other keys alone;
\* read returns the value of the map and changes nothing; list_keys has one
\* entry for each present key and no other.
C27_StoreIsAMap ==
    [][/\ ret'.op = "LTMFileStorage.write" =>
              /\ \/ ret'.result /\ Lookup(files', ret'.args.key) = Some(ret'.args.value)
                 \/ ~ret'.result /\ Lookup(files', ret'.args.key) = Lookup(files, ret'.args.key)
              /\ \A other \in StoreKeys \ {ret'.args.key} :
                     Lookup(files', other) = Lookup(files, other)
       /\ ret'.op = "LTMFileStorage.delete" =>
              /\ ret'.result = (Lookup(files, ret'.args.key) # None)
              /\ Lookup(files', ret'.args.key) = None
              /\ \A other \in StoreKeys \ {ret'.args.key} :
                     Lookup(files', other) = Lookup(files, other)
       /\ ret'.op = "LTMFileStorage.read" =>
              /\ ret'.result = Lookup(files, ret'.args.key)
              /\ files' = files
       /\ ret'.op = "LTMFileStorage.list_keys" =>
              /\ files' = files
              /\ Len(ret'.result) = Cardinality(Present(files))
      ]_<<ret.op, files>>

\* C26: every process_task call eventually returns a decision or raises, also
\* when the AI model never answers.
C26_ProcessTaskReturns == InProcessTask ~> (threads.pc = "heartbeat_wait")

====
